---- MODULE Spec2Model ----
(***************************************************************************)
(* Model of the detection-and-decision pipeline of universal-restrictor:   *)
(* the circuit breaker (restrictor/utils/circuit_breaker.py), the premium  *)
(* detector with its limiter and retry (detectors/claude_detector.py,      *)
(* utils/retry.py), the toxicity pipeline (detectors/toxicity.py) and the  *)
(* decision engine (restrictor/engine.py).                                 *)
(*                                                                         *)
(* Time is time.time() in whole seconds.  It starts at 1: the code tests   *)
(* `if self.last_failure_time and ...`, so None and 0.0 are the same       *)
(* falsy value, modelled as NoTime = 0, and a real clock never reads 0.    *)
(***************************************************************************)
EXTENDS Integers, Sequences, FiniteSets, TLC

VARIABLES
  now,        \* time.time()
  cb,         \* the CircuitBreaker object's fields
  op,         \* observation: the operation that made the last step
  from,       \* observation: the breaker state in which that operation started
  lastFailAt, \* observation: the time of the last record_failure call (0: none yet)
  ret,        \* observation: the value the last can_execute returned
  consec,     \* observation: record_failure calls since the last record_success
  admitted,   \* observation: can_execute calls answered True since HALF_OPEN was entered
  hoSucc,     \* observation: record_success calls since HALF_OPEN was entered
  available,  \* ClaudeDetector.is_available(): an API key and a client are there
  usage,      \* ClaudeDetector.usage, the UsageStats object's fields
  pc,         \* per request thread: where it stands in ClaudeDetector.detect
  att,        \* per request thread: retry_with_backoff's attempt
  resp,       \* per request thread: the API response it holds (tokens, classification)
  started,    \* observation: detect calls started so far
  advances,   \* observation: clock advances made so far
  apiTimes,   \* observation: the times of the API calls issued so far
  tox,        \* one ToxicityDetector.detect call: its input, position and result
  eng,        \* one Restrictor analysis: its policy, detections and Decision
  pii,        \* one text analysed for PII, and its redacted_text analysed again
  fb,         \* a feedback storage: its request cache, its records, the last call
  lrn,        \* the active learner: feedback in Redis, learned patterns, a classifier
  an,         \* one text analysed again and again: the toxicity stage and its action
  thr,        \* per request thread: where it stands inside a breaker call, and what it read
  stg,        \* one Restrictor.analyze call: its policy, the stages run so far, the outcome
  use,        \* the request threads inside _record_usage: the lock, what each has read
  sub         \* the request threads inside store_feedback on one storage

cbObs == <<op, from, lastFailAt, ret, consec, admitted, hoSucc>>
cbVars == <<cb, cbObs>>
detVars == <<usage, pc, att, resp, started, advances, apiTimes>>
moreVars == <<stg, use, sub>>
restVars == <<pii, fb, lrn, an, thr, moreVars>>
pureVars == <<tox, eng, restVars>>
vars == <<now, cbVars, available, detVars, pureVars>>

(***************************************************************************)
(* Bounds of the exploration.                                              *)
(***************************************************************************)
MaxTime == 64         \* the clock stops here
MaxFailures == 7      \* failure_count is not counted past this
MaxAdmitted == 4      \* the admitted observation is not counted past this
NumWorkers == 2       \* concurrent request threads
MaxRequests == 3      \* detect calls started in a run
MaxAdvances == 2      \* clock advances (besides the retry sleeps) in a run
MaxInputTokens == 2   \* response.usage.input_tokens is 1..MaxInputTokens
MaxOutputTokens == 1  \* response.usage.output_tokens is 1..MaxOutputTokens

(***************************************************************************)
(* circuit_breaker.py                                                      *)
(***************************************************************************)
CLOSED == "closed"
OPEN == "open"
HALF_OPEN == "half_open"
CircuitState == {CLOSED, OPEN, HALF_OPEN}

NoTime == 0

\* claude_circuit_breaker = CircuitBreaker(name="claude_api", failure_threshold=5,
\*                                         recovery_timeout=30), half_open_max_calls defaulted
failure_threshold == 5
recovery_timeout == 30
half_open_max_calls == 3

\* CircuitBreaker.__init__
NewBreaker ==
  [state |-> CLOSED, failure_count |-> 0, success_count |-> 0,
   last_failure_time |-> NoTime, half_open_calls |-> 0]

\* CircuitBreaker._transition_to
transition_to(b, new_state) ==
  LET b1 == [b EXCEPT !.state = new_state] IN
  IF new_state = CLOSED
    THEN [b1 EXCEPT !.failure_count = 0, !.success_count = 0]
    ELSE IF new_state = HALF_OPEN
      THEN [b1 EXCEPT !.half_open_calls = 0, !.success_count = 0]
      ELSE b1

\* can_execute, had it waited for more than recovery_timeout
can_execute_past_timeout(b, t) ==
  IF b.state = CLOSED THEN [ret |-> TRUE, cb |-> b]
  ELSE IF b.state = OPEN THEN
    IF b.last_failure_time # NoTime /\ t - b.last_failure_time > recovery_timeout
      THEN [ret |-> TRUE, cb |-> transition_to(b, HALF_OPEN)]
      ELSE [ret |-> FALSE, cb |-> b]
  ELSE IF b.state = HALF_OPEN THEN
    [ret |-> b.half_open_calls < half_open_max_calls, cb |-> b]
  ELSE [ret |-> FALSE, cb |-> b]

\* CircuitBreaker.can_execute at time t: the value returned and the breaker afterwards
can_execute(b, t) ==
  IF b.state = CLOSED THEN [ret |-> TRUE, cb |-> b]
  ELSE IF b.state = OPEN THEN
    IF b.last_failure_time # NoTime /\ t - b.last_failure_time >= recovery_timeout
      THEN [ret |-> TRUE, cb |-> transition_to(b, HALF_OPEN)]
      ELSE [ret |-> FALSE, cb |-> b]
  ELSE IF b.state = HALF_OPEN THEN
    [ret |-> b.half_open_calls < half_open_max_calls, cb |-> b]
  ELSE [ret |-> FALSE, cb |-> b]

\* record_success, had it closed the breaker one success later
record_success_past_max(b) ==
  LET b1 == [b EXCEPT !.failure_count = 0] IN
  IF b1.state = HALF_OPEN
    THEN LET b2 == [b1 EXCEPT !.success_count = @ + 1] IN
         IF b2.success_count > half_open_max_calls
           THEN transition_to(b2, CLOSED)
           ELSE b2
    ELSE b1

\* CircuitBreaker.record_success
record_success(b) ==
  LET b1 == [b EXCEPT !.failure_count = 0] IN
  IF b1.state = HALF_OPEN
    THEN LET b2 == [b1 EXCEPT !.success_count = @ + 1] IN
         IF b2.success_count >= half_open_max_calls
           THEN transition_to(b2, CLOSED)
           ELSE b2
    ELSE b1

\* record_failure, had it opened the breaker one failure later
record_failure_past_threshold(b, t) ==
  LET b1 == [b EXCEPT !.failure_count = @ + 1, !.last_failure_time = t] IN
  IF b1.state = HALF_OPEN THEN transition_to(b1, OPEN)
  ELSE IF b1.failure_count > failure_threshold THEN transition_to(b1, OPEN)
  ELSE b1

\* record_failure, had it not noted the time of the failure
record_failure_keeps_time(b, t) ==
  LET b1 == [b EXCEPT !.failure_count = @ + 1] IN
  IF b1.state = HALF_OPEN THEN transition_to(b1, OPEN)
  ELSE IF b1.failure_count >= failure_threshold THEN transition_to(b1, OPEN)
  ELSE b1

\* CircuitBreaker.record_failure at time t
record_failure(b, t) ==
  LET b1 == [b EXCEPT !.failure_count = @ + 1, !.last_failure_time = t] IN
  IF b1.state = HALF_OPEN THEN transition_to(b1, OPEN)
  ELSE IF b1.failure_count >= failure_threshold THEN transition_to(b1, OPEN)
  ELSE b1

(***************************************************************************)
(* claude_detector.py and retry.py                                         *)
(*                                                                         *)
(* Money is counted in units of $0.25 per million tokens, so that          *)
(* INPUT_PRICE_PER_M = 0.25 is 1 unit a token and OUTPUT_PRICE_PER_M =     *)
(* 1.25 is 5 units a token.  The detector modelled is                      *)
(* ClaudeDetector(api_key, RateLimitConfig(requests_per_minute,            *)
(* daily_cost_cap_usd)), with the two limits below.                        *)
(***************************************************************************)
Workers == 1..NumWorkers

requests_per_minute == 2
daily_cost_cap == 13

INPUT_PRICE_PER_M == 1
OUTPUT_PRICE_PER_M == 5
MINUTE == 60
DAY == 86400
max_retries == 3

\* the clock advances the model explores between steps
TimeSteps == {recovery_timeout, DAY}

\* UsageStats(), created at time t
NewUsage(t) ==
  [total_input_tokens |-> 0, total_output_tokens |-> 0, total_requests |-> 0,
   blocked_requests |-> 0, daily_cost_usd |-> 0, last_reset_time |-> t,
   request_timestamps |-> <<>>]

\* ClaudeDetector._check_rate_limit at time t: (allowed, reason) and the usage afterwards
check_rate_limit(u, t) ==
  LET u1 == IF t - u.last_reset_time > DAY
              THEN [u EXCEPT !.daily_cost_usd = 0, !.last_reset_time = t,
                             !.request_timestamps = <<>>]
              ELSE u
  IN
  IF u1.daily_cost_usd >= daily_cost_cap
    THEN [allowed |-> FALSE, reason |-> "Daily cost cap reached", usage |-> u1]
    ELSE LET recent_requests == SelectSeq(u1.request_timestamps, LAMBDA x : x > t - MINUTE)
             u2 == [u1 EXCEPT !.request_timestamps = recent_requests]
         IN
         IF Len(recent_requests) >= requests_per_minute
           THEN [allowed |-> FALSE, reason |-> "Rate limit reached", usage |-> u2]
           ELSE [allowed |-> TRUE, reason |-> "OK", usage |-> u2]

\* ClaudeDetector._record_usage at time t
record_usage(u, input_tokens, output_tokens, t) ==
  [u EXCEPT !.total_input_tokens = @ + input_tokens,
            !.total_output_tokens = @ + output_tokens,
            !.total_requests = @ + 1,
            !.request_timestamps = Append(@, t),
            !.daily_cost_usd = @ + input_tokens * INPUT_PRICE_PER_M
                                 + output_tokens * OUTPUT_PRICE_PER_M]

\* the API calls a window of one minute can hold without exceeding
\* requests_per_minute, and one more: what the apiTimes observation keeps
Recent(times, t) ==
  LET inWindow == SelectSeq(times, LAMBDA x : x > t - MINUTE)
      n == Len(inWindow)
  IN IF n > requests_per_minute + 1
       THEN SubSeq(inWindow, n - requests_per_minute, n)
       ELSE inWindow

NoResponse == [input_tokens |-> 0, output_tokens |-> 0]
Responses ==
  [input_tokens : 1..MaxInputTokens, output_tokens : 1..MaxOutputTokens]

(***************************************************************************)
(* The state after construction.  The breaker is the module-level          *)
(* claude_circuit_breaker, made at import; a ClaudeDetector is made later  *)
(* (lazily, by each ToxicityDetector), so a new detector finds the breaker *)
(* fresh or as the calls of an earlier detector left it: after             *)
(* PriorFailures(k), k failed calls in a row, the last at time 1.          *)
(***************************************************************************)
RECURSIVE FailTimes(_, _, _)
FailTimes(b, k, t) == IF k = 0 THEN b ELSE FailTimes(record_failure(b, t), k - 1, t)

PriorFailures(k) == FailTimes(NewBreaker, k, 1)

InitAt(t, k) ==
  /\ now = t
  /\ cb = PriorFailures(k)
  /\ op = "init"
  /\ from = CLOSED
  /\ lastFailAt = IF k = 0 THEN NoTime ELSE 1
  /\ ret = TRUE
  /\ consec = k
  /\ admitted = 0
  /\ hoSucc = 0
  /\ available \in BOOLEAN
  /\ usage = NewUsage(t)
  /\ pc = [i \in Workers |-> "idle"]
  /\ att = [i \in Workers |-> 0]
  /\ resp = [i \in Workers |-> NoResponse]
  /\ started = 0
  /\ advances = 0
  /\ apiTimes = <<>>
  /\ tox = [pc |-> "idle"]
  /\ eng = [pc |-> "idle"]
  /\ pii = [pc |-> "idle"]
  /\ fb = [pc |-> "idle"]
  /\ lrn = [pc |-> "idle"]
  /\ an = [pc |-> "idle"]
  /\ thr = [i \in Workers |-> [pc |-> "idle", failure_count |-> 0, succeeded |-> FALSE]]
  /\ stg = [pc |-> "idle"]
  /\ use = [pc |-> "idle"]
  /\ sub = [pc |-> "idle"]

(***************************************************************************)
(* The three breaker calls, with what the observations record of them.     *)
(***************************************************************************)
\* whether the step b -> b2 entered HALF_OPEN
EntersHalfOpen(b, b2) == b.state # HALF_OPEN /\ b2.state = HALF_OPEN

CallCanExecute ==
  LET r == can_execute(cb, now) IN
  /\ cb' = r.cb
  /\ ret' = r.ret
  /\ op' = "can_execute"
  /\ from' = cb.state
  /\ admitted' = IF EntersHalfOpen(cb, r.cb) THEN 1
                 ELSE IF r.ret /\ cb.state = HALF_OPEN THEN admitted + 1
                 ELSE admitted
  /\ hoSucc' = IF EntersHalfOpen(cb, r.cb) THEN 0 ELSE hoSucc
  /\ UNCHANGED <<lastFailAt, consec, pureVars>>

CallRecordSuccess ==
  /\ cb' = record_success(cb)
  /\ op' = "record_success"
  /\ from' = cb.state
  /\ consec' = 0
  /\ hoSucc' = IF cb.state = HALF_OPEN THEN hoSucc + 1 ELSE hoSucc
  /\ UNCHANGED <<lastFailAt, ret, admitted, pureVars>>

CallRecordFailure ==
  /\ cb' = record_failure(cb, now)
  /\ op' = "record_failure"
  /\ from' = cb.state
  /\ lastFailAt' = now
  /\ consec' = consec + 1
  /\ UNCHANGED <<ret, admitted, hoSucc, pureVars>>

(***************************************************************************)
(* SpecCB: one breaker driven through its public methods in any order,     *)
(* with the clock advancing between calls.                                 *)
(***************************************************************************)
InitCB == InitAt(1, 0) /\ available = TRUE

CanExecute ==
  /\ admitted < MaxAdmitted
  /\ CallCanExecute
  /\ UNCHANGED <<now, available, detVars>>

RecordSuccess ==
  /\ CallRecordSuccess
  /\ UNCHANGED <<now, available, detVars>>

RecordFailure ==
  /\ cb.failure_count < MaxFailures
  /\ CallRecordFailure
  /\ UNCHANGED <<now, available, detVars>>

Tick ==
  /\ now < MaxTime
  /\ now' = now + 1
  /\ op' = "tick"
  /\ UNCHANGED <<cb, from, lastFailAt, ret, consec, admitted, hoSucc, available, detVars,
                 pureVars>>

NextCB == CanExecute \/ RecordSuccess \/ RecordFailure \/ Tick

SpecCB == InitCB /\ [][NextCB]_vars

(***************************************************************************)
(* Spec: NumWorkers request threads run ClaudeDetector.detect on the one   *)
(* detector and the one module-level breaker.  A step is what a thread     *)
(* does between two points where another thread can run: a section under   *)
(* self._lock, a breaker call, an API call, a sleep.                       *)
(***************************************************************************)
cbUnchanged == UNCHANGED <<cb, from, lastFailAt, ret, consec, admitted, hoSucc, pureVars>>

\* detect, from its start to the end of _check_rate_limit
CheckRateLimit(i) ==
  /\ pc[i] = "idle"
  /\ started < MaxRequests
  /\ started' = started + 1
  /\ op' = "step"
  /\ IF ~available
       THEN UNCHANGED <<usage, pc>>
       ELSE LET r == check_rate_limit(usage, now) IN
            /\ usage' = r.usage
            /\ pc' = [pc EXCEPT ![i] = IF r.allowed THEN "circuit" ELSE "blocked"]
  /\ cbUnchanged
  /\ UNCHANGED <<now, available, att, resp, advances, apiTimes>>

\* detect, not allowed, had it counted the rejected call as a request made
Blocked_records_request(i) ==
  /\ pc[i] = "blocked"
  /\ usage' = [usage EXCEPT !.blocked_requests = @ + 1,
                            !.request_timestamps = Append(@, now)]
  /\ pc' = [pc EXCEPT ![i] = "idle"]
  /\ op' = "step"
  /\ cbUnchanged
  /\ UNCHANGED <<now, available, att, resp, started, advances, apiTimes>>

\* detect, not allowed: blocked_requests += 1 under the lock, return []
Blocked(i) ==
  /\ pc[i] = "blocked"
  /\ usage' = [usage EXCEPT !.blocked_requests = @ + 1]
  /\ pc' = [pc EXCEPT ![i] = "idle"]
  /\ op' = "step"
  /\ cbUnchanged
  /\ UNCHANGED <<now, available, att, resp, started, advances, apiTimes>>

\* detect: claude_circuit_breaker.can_execute(), return [] when it says no
CircuitCheck(i) ==
  /\ pc[i] = "circuit"
  /\ CallCanExecute
  /\ pc' = [pc EXCEPT ![i] = IF can_execute(cb, now).ret THEN "call" ELSE "idle"]
  /\ att' = [att EXCEPT ![i] = 0]
  /\ UNCHANGED <<now, available, usage, resp, started, advances, apiTimes>>


\* one attempt of sync_wrapper, had the loop run for one attempt more
ApiAttempt_one_more(i) ==
  /\ pc[i] = "call"
  /\ apiTimes' = Recent(Append(apiTimes, now), now)
  /\ op' = "api_call"
  /\ \/ \E r \in Responses :
          /\ resp' = [resp EXCEPT ![i] = r]
          /\ pc' = [pc EXCEPT ![i] = "record_usage"]
     \/ /\ resp' = resp
        /\ pc' = [pc EXCEPT ![i] = IF att[i] = max_retries + 1 THEN "failed" ELSE "sleep"]
  /\ cbUnchanged
  /\ UNCHANGED <<now, available, usage, att, started, advances>>

\* _call_claude_api, one attempt of sync_wrapper: the API call, which returns a
\* response or raises
ApiAttempt(i) ==
  /\ pc[i] = "call"
  /\ apiTimes' = Recent(Append(apiTimes, now), now)
  /\ op' = "api_call"
  /\ \/ \E r \in Responses :
          /\ resp' = [resp EXCEPT ![i] = r]
          /\ pc' = [pc EXCEPT ![i] = "record_usage"]
     \/ /\ resp' = resp
        /\ pc' = [pc EXCEPT ![i] = IF att[i] = max_retries THEN "failed" ELSE "sleep"]
  /\ cbUnchanged
  /\ UNCHANGED <<now, available, usage, att, started, advances>>

\* sync_wrapper: time.sleep(delay) before the next attempt.  The thread only
\* waits: what time passes meanwhile is Advance's to say (the delays are at most
\* 1.5, 3 and 6 seconds, well inside the windows the model looks at)
Sleep(i) ==
  /\ pc[i] = "sleep"
  /\ att' = [att EXCEPT ![i] = @ + 1]
  /\ pc' = [pc EXCEPT ![i] = "call"]
  /\ op' = "step"
  /\ cbUnchanged
  /\ UNCHANGED <<now, available, usage, resp, started, advances, apiTimes>>

\* detect: self._record_usage(response.usage.input_tokens, response.usage.output_tokens)
RecordUsage(i) ==
  /\ pc[i] = "record_usage"
  /\ usage' = record_usage(usage, resp[i].input_tokens, resp[i].output_tokens, now)
  /\ pc' = [pc EXCEPT ![i] = "success"]
  /\ op' = "step"
  /\ cbUnchanged
  /\ UNCHANGED <<now, available, att, resp, started, advances, apiTimes>>

\* detect: claude_circuit_breaker.record_success(), return the parsed response
Success(i) ==
  /\ pc[i] = "success"
  /\ CallRecordSuccess
  /\ pc' = [pc EXCEPT ![i] = "idle"]
  /\ resp' = [resp EXCEPT ![i] = NoResponse]
  /\ UNCHANGED <<now, available, usage, att, started, advances, apiTimes>>

\* detect, except Exception: claude_circuit_breaker.record_failure(), return []
Failure(i) ==
  /\ pc[i] = "failed"
  /\ CallRecordFailure
  /\ pc' = [pc EXCEPT ![i] = "idle"]
  /\ UNCHANGED <<now, available, usage, att, resp, started, advances, apiTimes>>

\* time passes
Advance ==
  /\ advances < MaxAdvances
  /\ \E d \in TimeSteps : now' = now + d
  /\ advances' = advances + 1
  /\ op' = "step"
  /\ cbUnchanged
  /\ UNCHANGED <<available, usage, pc, att, resp, started, apiTimes>>

Next ==
  \/ \E i \in Workers :
       \/ CheckRateLimit(i) \/ Blocked(i) \/ CircuitCheck(i) \/ ApiAttempt(i)
       \/ Sleep(i) \/ RecordUsage(i) \/ Success(i) \/ Failure(i)
  \/ Advance

\* the detector is made at time StartTime, and the breaker has seen no call, or
\* failure_threshold - 1 or failure_threshold failed calls
StartTime == 20
Init == \E k \in {0, failure_threshold - 1, failure_threshold} : InitAt(StartTime, k)

Spec == Init /\ [][Next]_vars

(***************************************************************************)
(* Claims about the circuit breaker, checked under SpecCB.                 *)
(***************************************************************************)

\* C1: a record_failure that starts in CLOSED leaves the breaker OPEN exactly when
\* it is the failure_threshold-th failure in a row (no record_success in between),
\* and CLOSED when it is an earlier one; a record_success leaves the count of
\* consecutive failures, failure_count, at 0.
C1_OpensAtThreshold ==
  /\ (op = "record_failure" /\ from = CLOSED) =>
        /\ cb.failure_count = consec
        /\ (consec >= failure_threshold => cb.state = OPEN)
        /\ (consec < failure_threshold => cb.state = CLOSED)
  /\ (op = "record_success" => cb.failure_count = 0)

C1_Witness ==
  /\ op = "record_failure" /\ from = CLOSED
  /\ consec = failure_threshold /\ cb.state = OPEN

\* C2: a can_execute that starts in OPEN returns False and leaves the breaker OPEN
\* while less than recovery_timeout has passed since the last record_failure, and
\* returns True and moves the breaker to HALF_OPEN from then on.
C2_OpenUntilRecoveryTimeout ==
  (op = "can_execute" /\ from = OPEN) =>
    IF now - lastFailAt < recovery_timeout
      THEN ret = FALSE /\ cb.state = OPEN
      ELSE ret = TRUE /\ cb.state = HALF_OPEN

C2_Witness ==
  /\ op = "can_execute" /\ from = OPEN
  /\ now - lastFailAt = recovery_timeout
  /\ ret = TRUE /\ cb.state = HALF_OPEN

C2_WitnessRejected ==
  /\ op = "can_execute" /\ from = OPEN
  /\ now - lastFailAt = recovery_timeout - 1
  /\ ret = FALSE

\* C29: in every state the breaker reaches through can_execute, record_success
\* and record_failure calls, state = CLOSED implies failure_count <
\* failure_threshold, and state = OPEN implies that last_failure_time is set, so
\* that a can_execute once recovery_timeout has elapsed moves it to HALF_OPEN.
C29_BreakerInvariants ==
  /\ cb.state = CLOSED => cb.failure_count < failure_threshold
  /\ cb.state = OPEN =>
       /\ cb.last_failure_time # NoTime
       /\ now - cb.last_failure_time >= recovery_timeout =>
            (can_execute(cb, now).ret /\ can_execute(cb, now).cb.state = HALF_OPEN)

\* a failed probe has re-opened the breaker and recovery_timeout has passed again
C29_Witness ==
  /\ cb.state = OPEN /\ cb.failure_count > failure_threshold
  /\ op = "tick" /\ now - cb.last_failure_time = recovery_timeout
  /\ cb.last_failure_time > recovery_timeout

C29_WitnessClosed ==
  /\ cb.state = CLOSED /\ op = "record_failure"
  /\ cb.failure_count = failure_threshold - 1

\* C3: in HALF_OPEN at most half_open_max_calls calls are admitted: a can_execute
\* answered True while HALF_OPEN is never the (half_open_max_calls + 1)-th one
\* since HALF_OPEN was entered.
C3_HalfOpenAdmitsAtMostMax ==
  (op = "can_execute" /\ cb.state = HALF_OPEN /\ ret = TRUE) =>
    admitted <= half_open_max_calls

\* C4: in HALF_OPEN the half_open_max_calls-th record_success moves the breaker
\* to CLOSED with failure_count and success_count at 0, and a record_failure
\* moves it to OPEN.
C4_HalfOpenClosesOrReopens ==
  /\ (op = "record_success" /\ from = HALF_OPEN /\ hoSucc = half_open_max_calls) =>
        cb.state = CLOSED /\ cb.failure_count = 0 /\ cb.success_count = 0
  /\ (op = "record_success" /\ from = HALF_OPEN /\ hoSucc < half_open_max_calls) =>
        cb.state = HALF_OPEN
  /\ (op = "record_failure" /\ from = HALF_OPEN) => cb.state = OPEN

C4_Witness ==
  /\ op = "record_success" /\ from = HALF_OPEN
  /\ hoSucc = half_open_max_calls /\ cb.state = CLOSED

(***************************************************************************)
(* Claims about the limiter of the premium detector, checked under Spec.   *)
(***************************************************************************)

\* C5: no premium API call is issued while the recorded daily cost is at or over
\* the daily cost cap and the day of that cost is still running, whatever the
\* breaker's state and however the request threads interleave.
C5_NoCallOverBudget ==
  op = "api_call" =>
    ~(usage.daily_cost_usd >= daily_cost_cap /\ now - usage.last_reset_time <= DAY)

\* C6: in any window of 60 seconds at most requests_per_minute premium API calls
\* are issued, failed calls and the calls of concurrent requests included.
C6_AtMostRpmCallsPerMinute ==
  op = "api_call" =>
    Len(SelectSeq(apiTimes, LAMBDA x : x > now - MINUTE)) <= requests_per_minute

(***************************************************************************)
(* toxicity.py                                                             *)
(*                                                                         *)
(* A text is a few words of a small vocabulary followed by `pad` more      *)
(* words "hello".  Each word of the vocabulary stands for itself: what the *)
(* patterns and phrase lists of toxicity.py say of it is tabled below.     *)
(* Confidences are in hundredths.                                          *)
(***************************************************************************)
MaxWords == 2         \* vocabulary words in a text
MaxPad == 11          \* further words "hello" in a text

Vocabulary == {"hello", "namaste", "kys", "kutta", "bsdk", "vacation in my"}

Texts == [words : UNION {[1..n -> Vocabulary] : n \in 0..MaxWords}, pad : 0..MaxPad]

\* len(w.split())
WordsIn(w) == IF w = "vacation in my" THEN 3 ELSE 1

RECURSIVE SumWords(_)
SumWords(ws) == IF ws = <<>> THEN 0 ELSE WordsIn(Head(ws)) + SumWords(Tail(ws))

\* len(text.split())
word_count(text) == SumWords(text.words) + text.pad

Has(text, set) == \E i \in DOMAIN text.words : text.words[i] \in set

\* the THREAT_PATTERNS entry (counted from 1) whose regex matches the word, 0 for none:
\* 3 is kill\s+yourself|kys\b|go\s+die, 11 is kutt[ae]|kutta|..., 12 is ...|bsdk
PatternOf(w) == IF w = "kys" THEN 3 ELSE IF w = "kutta" THEN 11 ELSE IF w = "bsdk" THEN 12 ELSE 0

\* THREAT_PATTERNS[k]: its category and severity
ThreatPattern(k) ==
  IF k = 3 THEN [category |-> "toxic_self_harm", severity |-> "critical"]
  ELSE IF k = 11 THEN [category |-> "toxic_harassment", severity |-> "high"]
  ELSE [category |-> "toxic_harassment", severity |-> "critical"]

\* is_gibberish: of the vocabulary only "bsdk" alone is (one word longer than 3
\* letters with less than 15% vowels)
is_gibberish(text) ==
  \/ word_count(text) = 0
  \/ word_count(text) = 1 /\ Has(text, {"bsdk"})

\* is_safe_phrase: "vacation in my" is one of ENGLISH_SAFE_PHRASES, "namaste" one of
\* HINDI_SAFE_PHRASES, and "kutta" holds "kutt", one of HINDI_SLURS
is_safe_phrase(text) ==
  IF Has(text, {"vacation in my"}) THEN TRUE
  ELSE LET has_safe == Has(text, {"namaste"})
           has_slur == Has(text, {"kutta"})
       IN has_safe /\ ~has_slur

\* get_dynamic_threshold
get_dynamic_threshold(text, base_threshold) ==
  IF word_count(text) <= 3 THEN 85
  ELSE IF word_count(text) <= 6 THEN 80
  ELSE IF word_count(text) <= 12 THEN 75
  ELSE base_threshold

\* ToxicityDetector._keyword_detect: the first pattern of THREAT_PATTERNS that matches
keyword_detect(text) ==
  LET hits == {PatternOf(text.words[i]) : i \in DOMAIN text.words} \ {0} IN
  IF hits = {} THEN <<>>
  ELSE LET k == CHOOSE h \in hits : \A g \in hits : h <= g IN
       <<[category |-> ThreatPattern(k).category, severity |-> ThreatPattern(k).severity,
          confidence |-> 98, detector |-> "keyword"]>>

\* max(d.confidence for d in detections)
MaxConfidence(detections) ==
  CHOOSE c \in {detections[i].confidence : i \in DOMAIN detections} :
    \A i \in DOMAIN detections : detections[i].confidence <= c

\* ToxicityDetector.__init__: moe_threshold
moe_threshold == 70

\* what moe.detect(text) can hand to _moe_detect: no detection (safe, or the model
\* did not load, or it raised), or one detection
MoeResults ==
  {<<>>} \cup
  {<<[category |-> "toxic_harassment", severity |-> "high", confidence |-> c,
      detector |-> "moe"]>> : c \in {55, 60, 72, 78, 82, 85, 93}}

\* what claude.detect(text) can hand to _claude_detect: [] (safe, unavailable,
\* rejected, failed) or one detection
ClaudeResults ==
  {<<>>} \cup
  {<<[category |-> "toxic_violence", severity |-> "critical", confidence |-> c,
      detector |-> "claude_haiku"]>> : c \in {65, 80, 95}}

\* detect, up to the keyword stage: the blank test, is_gibberish, is_safe_phrase
filter_stage(t) ==
  IF word_count(t.text) = 0 \/ is_gibberish(t.text) \/ is_safe_phrase(t.text)
    THEN [t EXCEPT !.pc = "done", !.result = <<>>]
    ELSE [t EXCEPT !.pc = "keyword"]

\* detect, the keyword stage as a bug would have it: the match is kept and the
\* pipeline goes on
keyword_stage_goes_on(t) ==
  [t EXCEPT !.pc = "moe", !.result = keyword_detect(t.text), !.keyword_ran = TRUE]

\* detect, the keyword stage
keyword_stage(t) ==
  LET keyword_detections == keyword_detect(t.text) IN
  IF keyword_detections # <<>>
    THEN [t EXCEPT !.pc = "done", !.result = keyword_detections, !.keyword_ran = TRUE]
    ELSE [t EXCEPT !.pc = "moe", !.keyword_ran = TRUE]

\* detect, the MoE stage, had it kept an uncertain local detection when the
\* premium stage is disabled
moe_stage_keeps_uncertain(t, moe_detections) ==
  IF moe_detections # <<>>
    THEN LET max_conf == MaxConfidence(moe_detections)
             dynamic_thresh == get_dynamic_threshold(t.text, moe_threshold)
         IN
         IF max_conf >= 85 THEN [t EXCEPT !.pc = "done", !.result = moe_detections]
         ELSE IF max_conf >= dynamic_thresh
           THEN [t EXCEPT !.pc = "done", !.result = moe_detections]
         ELSE IF max_conf >= 60 /\ t.use_claude THEN [t EXCEPT !.pc = "claude"]
         ELSE IF max_conf >= 60 THEN [t EXCEPT !.pc = "done", !.result = moe_detections]
         ELSE [t EXCEPT !.pc = "done", !.result = <<>>]
    ELSE IF t.use_claude THEN [t EXCEPT !.pc = "claude"]
    ELSE [t EXCEPT !.pc = "done", !.result = <<>>]

\* detect, the MoE stage, had it compared with the configured base threshold
\* whatever the length of the text
moe_stage_base_threshold(t, moe_detections) ==
  IF moe_detections # <<>>
    THEN LET max_conf == MaxConfidence(moe_detections)
             dynamic_thresh == moe_threshold
         IN
         IF max_conf >= 85 THEN [t EXCEPT !.pc = "done", !.result = moe_detections]
         ELSE IF max_conf >= dynamic_thresh
           THEN [t EXCEPT !.pc = "done", !.result = moe_detections]
         ELSE IF max_conf >= 60 /\ t.use_claude THEN [t EXCEPT !.pc = "claude"]
         ELSE [t EXCEPT !.pc = "done", !.result = <<>>]
    ELSE IF t.use_claude THEN [t EXCEPT !.pc = "claude"]
    ELSE [t EXCEPT !.pc = "done", !.result = <<>>]

\* detect, the MoE stage, given what _moe_detect returned
moe_stage(t, moe_detections) ==
  IF moe_detections # <<>>
    THEN LET max_conf == MaxConfidence(moe_detections)
             dynamic_thresh == get_dynamic_threshold(t.text, moe_threshold)
         IN
         IF max_conf >= 85 THEN [t EXCEPT !.pc = "done", !.result = moe_detections]
         ELSE IF max_conf >= dynamic_thresh
           THEN [t EXCEPT !.pc = "done", !.result = moe_detections]
         ELSE IF max_conf >= 60 /\ t.use_claude THEN [t EXCEPT !.pc = "claude"]
         ELSE [t EXCEPT !.pc = "done", !.result = <<>>]
    ELSE IF t.use_claude THEN [t EXCEPT !.pc = "claude"]
    ELSE [t EXCEPT !.pc = "done", !.result = <<>>]

\* detect, the Claude stage, given what _claude_detect returned
claude_stage(t, claude_detections) ==
  [t EXCEPT !.pc = "done", !.result = claude_detections]

(***************************************************************************)
(* SpecTox: ToxicityDetector(use_moe, use_claude).detect(text), one stage  *)
(* a step, for every text and every answer of the two classifiers.         *)
(***************************************************************************)
toxUnchanged == UNCHANGED <<now, cbVars, available, detVars, eng, restVars>>

ToxStart ==
  /\ tox.pc = "idle"
  /\ \E text \in Texts, use_moe \in BOOLEAN, use_claude \in BOOLEAN :
       tox' = [pc |-> "filters", text |-> text, use_moe |-> use_moe,
               use_claude |-> use_claude, result |-> <<>>, keyword_ran |-> FALSE,
               moe_calls |-> 0, claude_calls |-> 0,
               moe |-> <<>>, escalated |-> FALSE, claude |-> <<>>]
  /\ toxUnchanged

ToxFilters ==
  /\ tox.pc = "filters"
  /\ tox' = filter_stage(tox)
  /\ toxUnchanged

ToxKeyword ==
  /\ tox.pc = "keyword"
  /\ tox' = keyword_stage(tox)
  /\ toxUnchanged

\* `if self.use_moe:` and _moe_detect: the model is called unless it did not load
ToxMoe ==
  /\ tox.pc = "moe"
  /\ \/ /\ ~tox.use_moe
        /\ tox' = moe_stage(tox, <<>>)
     \/ /\ tox.use_moe
        /\ tox' = moe_stage(tox, <<>>)
     \/ /\ tox.use_moe
        /\ \E r \in MoeResults :
             tox' = moe_stage([tox EXCEPT !.moe_calls = @ + 1, !.moe = r], r)
  /\ toxUnchanged

\* _claude_detect: the detector is called unless it could not be made
ToxClaude ==
  /\ tox.pc = "claude"
  /\ \/ tox' = claude_stage([tox EXCEPT !.escalated = TRUE], <<>>)
     \/ \E r \in ClaudeResults :
          tox' = claude_stage([tox EXCEPT !.claude_calls = @ + 1, !.escalated = TRUE,
                                          !.claude = r], r)
  /\ toxUnchanged

NextTox == ToxStart \/ ToxFilters \/ ToxKeyword \/ ToxMoe \/ ToxClaude

SpecTox == InitCB /\ [][NextTox]_vars

\* C7: when the keyword stage of detect has run and matched, detect has returned
\* the keyword detection at once: the call is over, its result is the keyword
\* detection, and neither the local model nor the premium classifier was called.
C7_KeywordMatchReturnsAtOnce ==
  (tox.pc # "idle" /\ tox.keyword_ran /\ keyword_detect(tox.text) # <<>>) =>
    /\ tox.pc = "done"
    /\ tox.result = keyword_detect(tox.text)
    /\ tox.moe_calls = 0
    /\ tox.claude_calls = 0

C7_Witness ==
  /\ tox.pc = "done" /\ tox.keyword_ran
  /\ tox.use_moe /\ tox.use_claude
  /\ Len(tox.result) = 1 /\ tox.result[1].detector = "keyword"
  /\ tox.result[1].confidence = 98

\* the local model returned detections, detect is over: max_conf, dynamic_thresh
C25_max_conf == MaxConfidence(tox.moe)
C25_dynamic_thresh == get_dynamic_threshold(tox.text, moe_threshold)
C25_LocalAnswered == tox.pc = "done" /\ tox.moe # <<>>

\* C25 as stated: when the local model returned detections with maximum
\* confidence c and the length-dependent threshold is t, then c >= 0.85 or c >= t
\* returns the local detections with no premium call, 0.60 <= c < t consults the
\* premium classifier and returns its result, and c < 0.60 returns nothing with
\* no premium call.
C25_AsStated ==
  C25_LocalAnswered =>
    /\ (C25_max_conf >= 85 \/ C25_max_conf >= C25_dynamic_thresh) =>
          (tox.result = tox.moe /\ ~tox.escalated /\ tox.claude_calls = 0)
    /\ (60 <= C25_max_conf /\ C25_max_conf < C25_dynamic_thresh /\ C25_max_conf < 85) =>
          (tox.escalated /\ tox.result = tox.claude)
    /\ C25_max_conf < 60 =>
          (tox.result = <<>> /\ ~tox.escalated /\ tox.claude_calls = 0)

\* C25, amended: as above, but 0.60 <= c < t consults the premium classifier and
\* returns its result only when the premium stage is enabled (use_claude); when
\* it is disabled the result is empty and no premium call is made.
C25_ThresholdBands ==
  C25_LocalAnswered =>
    /\ (C25_max_conf >= 85 \/ C25_max_conf >= C25_dynamic_thresh) =>
          (tox.result = tox.moe /\ ~tox.escalated /\ tox.claude_calls = 0)
    /\ (60 <= C25_max_conf /\ C25_max_conf < C25_dynamic_thresh /\ C25_max_conf < 85
           /\ tox.use_claude) =>
          (tox.escalated /\ tox.result = tox.claude)
    /\ (60 <= C25_max_conf /\ C25_max_conf < C25_dynamic_thresh /\ C25_max_conf < 85
           /\ ~tox.use_claude) =>
          (tox.result = <<>> /\ ~tox.escalated /\ tox.claude_calls = 0)
    /\ C25_max_conf < 60 =>
          (tox.result = <<>> /\ ~tox.escalated /\ tox.claude_calls = 0)

\* a seven-word text, the local model at 0.78 under the threshold 0.75 of 7..12
\* words would be returned; here a two-word text at 0.78 is under 0.85, the
\* premium classifier is asked and its detection returned
C25_Witness ==
  /\ C25_LocalAnswered /\ tox.use_claude
  /\ word_count(tox.text) = 2 /\ C25_max_conf = 78
  /\ tox.escalated /\ tox.claude # <<>> /\ tox.result = tox.claude

C25_WitnessLongText ==
  /\ C25_LocalAnswered /\ word_count(tox.text) = 13 /\ C25_max_conf = 72
  /\ tox.result = tox.moe /\ ~tox.escalated

(***************************************************************************)
(* engine.py and models.py                                                 *)
(*                                                                         *)
(* A detection is its category and its severity, which is all that         *)
(* _determine_action reads.  The categories are some of each kind of       *)
(* models.Category.                                                        *)
(***************************************************************************)
MaxDetections == 2    \* detections of one request

ALLOW == "allow"
ALLOW_WITH_WARNING == "allow_with_warning"
REDACT == "redact"
BLOCK == "block"
Action == {ALLOW, ALLOW_WITH_WARNING, REDACT, BLOCK}

LOW == "low"
MEDIUM == "medium"
HIGH == "high"
CRITICAL == "critical"
Severity == {LOW, MEDIUM, HIGH, CRITICAL}

\* list(Severity).index(s)
SeverityIndex(s) ==
  IF s = LOW THEN 0 ELSE IF s = MEDIUM THEN 1 ELSE IF s = HIGH THEN 2 ELSE 3

PROMPT_INJECTION == "prompt_injection"
JAILBREAK_ATTEMPT == "jailbreak_attempt"
DATA_EXFILTRATION == "data_exfiltration"
FINANCE_INSIDER_INFO == "finance_insider_info"
FINANCE_TRADING_INTENT == "finance_trading_intent"

PII_EMAIL == "pii_email"
PII_PHONE == "pii_phone"
PII_CREDIT_CARD == "pii_credit_card"
PII_SSN == "pii_ssn"
PII_PASSWORD == "pii_password"
PII_PASSPORT == "pii_passport"
PII_PAN == "pii_pan"
PII_AADHAAR == "pii_aadhaar"
PII_IP_ADDRESS == "pii_ip_address"
TOXIC_HARASSMENT == "toxic_harassment"
TOXIC_HATE == "toxic_hate"
TOXIC_VIOLENCE == "toxic_violence"
TOXIC_SELF_HARM == "toxic_self_harm"

\* d.category.value.startswith("pii") and d.category.value.startswith("toxic"), on
\* the categories of the model
PiiCategories ==
  {PII_EMAIL, PII_PHONE, PII_CREDIT_CARD, PII_SSN, PII_AADHAAR, PII_PAN, PII_IP_ADDRESS,
   PII_PASSWORD, PII_PASSPORT}
ToxicCategories == {TOXIC_HARASSMENT, TOXIC_HATE, TOXIC_VIOLENCE, TOXIC_SELF_HARM}
InjectionCategories == {PROMPT_INJECTION, JAILBREAK_ATTEMPT, DATA_EXFILTRATION}
FinanceCategories == {FINANCE_INSIDER_INFO, FINANCE_TRADING_INTENT}
Category ==
  PiiCategories \cup ToxicCategories \cup InjectionCategories \cup FinanceCategories

\* The severities with which the detectors report each category: the PII
\* patterns, the toxicity keyword patterns and premium-classifier table, the
\* prompt-injection patterns, and FinanceIntentDetector.detect.
SeveritiesOf(category) ==
  CASE category = PII_EMAIL -> {MEDIUM}
    [] category = PII_PHONE -> {MEDIUM}
    [] category = PII_CREDIT_CARD -> {CRITICAL}
    [] category = PII_SSN -> {CRITICAL}
    [] category = PII_PASSWORD -> {CRITICAL}
    [] category = PII_PASSPORT -> {HIGH}
    [] category = PII_PAN -> {HIGH}
    [] category = PII_AADHAAR -> {CRITICAL}
    [] category = PII_IP_ADDRESS -> {LOW}
    [] category = TOXIC_HARASSMENT -> {MEDIUM, HIGH, CRITICAL}
    [] category = TOXIC_HATE -> {CRITICAL}
    [] category = TOXIC_VIOLENCE -> {CRITICAL}
    [] category = TOXIC_SELF_HARM -> {CRITICAL}
    [] category = PROMPT_INJECTION -> {LOW, MEDIUM, HIGH, CRITICAL}
    [] category = JAILBREAK_ATTEMPT -> {MEDIUM, HIGH, CRITICAL}
    [] category = DATA_EXFILTRATION -> {CRITICAL}
    [] category = FINANCE_INSIDER_INFO -> {CRITICAL}
    [] category = FINANCE_TRADING_INTENT -> {HIGH}

Detections ==
  {d \in [category : Category, severity : Severity] : d.severity \in SeveritiesOf(d.category)}
DetectionLists == UNION {[1..n -> Detections] : n \in 0..MaxDetections}

\* PolicyConfig: the fields _determine_action reads
PolicyConfigs ==
  [pii_action : Action, toxicity_action : Action, prompt_injection_action : Action]

\* PolicyConfig(): the defaults
DefaultPolicy ==
  [pii_action |-> REDACT, toxicity_action |-> BLOCK, prompt_injection_action |-> BLOCK]

HasAny(detections, categories) ==
  \E i \in DOMAIN detections : detections[i].category \in categories

\* max((d.severity for d in detections if d.category in categories),
\*     default=Severity.LOW, key=lambda s: list(Severity).index(s))
MaxSeverity(detections, categories) ==
  LET sevs == {detections[i].severity :
                 i \in {j \in DOMAIN detections : detections[j].category \in categories}}
  IN IF sevs = {} THEN LOW
     ELSE CHOOSE s \in sevs : \A r \in sevs : SeverityIndex(r) <= SeverityIndex(s)

\* Restrictor._determine_action
determine_action(detections, config) ==
  IF detections = <<>> THEN ALLOW
  ELSE
    LET has_toxicity == HasAny(detections, ToxicCategories)
        has_injection == HasAny(detections, InjectionCategories)
        has_pii == HasAny(detections, PiiCategories)
        max_severity == MaxSeverity(detections, Category)
    IN
    IF has_injection /\ config.prompt_injection_action = BLOCK THEN BLOCK
    ELSE IF has_toxicity /\ config.toxicity_action = BLOCK THEN
      IF MaxSeverity(detections, ToxicCategories) \in {HIGH, CRITICAL}
        THEN BLOCK
        ELSE ALLOW_WITH_WARNING
    ELSE IF has_pii /\ config.pii_action = BLOCK
              /\ MaxSeverity(detections, PiiCategories) \in {HIGH, CRITICAL}
      THEN BLOCK
    ELSE IF has_pii /\ config.pii_action = REDACT THEN REDACT
    ELSE IF max_severity = CRITICAL THEN BLOCK
    ELSE ALLOW_WITH_WARNING

\* Restrictor.analyze, from `action = self._determine_action(all_detections)` on:
\* the Decision's action and whether it carries a redacted_text
decide(detections, config) ==
  LET action == determine_action(detections, config) IN
  [pc |-> "decided", config |-> config, detections |-> detections, action |-> action,
   has_redacted_text |-> (action = REDACT /\ detections # <<>>)]

(***************************************************************************)
(* SpecEngine: a Restrictor with any policy decides on any list of         *)
(* detections.                                                             *)
(***************************************************************************)
Configure ==
  /\ eng.pc = "idle"
  /\ \E config \in PolicyConfigs : eng' = [pc |-> "configured", config |-> config]
  /\ UNCHANGED <<now, cbVars, available, detVars, tox, restVars>>

Decide ==
  /\ eng.pc = "configured"
  /\ \E detections \in DetectionLists : eng' = decide(detections, eng.config)
  /\ UNCHANGED <<now, cbVars, available, detVars, tox, restVars>>

NextEngine == Configure \/ Decide

SpecEngine == InitCB /\ [][NextEngine]_vars

Decided == eng.pc = "decided"

\* C8: a decision on detections that hold an insider-financial-info detection is
\* block, for every policy and whatever else was detected.
C8_InsiderInfoAlwaysBlocks ==
  (Decided /\ HasAny(eng.detections, {FINANCE_INSIDER_INFO})) => eng.action = BLOCK

\* C9: a decision on detections that hold a prompt-injection, jailbreak or
\* data-exfiltration detection has the policy's prompt_injection_action as its
\* action, whatever the severities and the other detections.
C9_InjectionGetsPolicyAction ==
  (Decided /\ HasAny(eng.detections, InjectionCategories))
    => eng.action = eng.config.prompt_injection_action

\* C10: under a policy whose PII action is redact, a decision on detections that
\* hold a PII detection, no injection, jailbreak or exfiltration detection, no
\* finance detection and no toxicity of high or critical severity is redact and
\* carries a redacted_text.
C10_PiiIsRedacted ==
  ( /\ Decided
    /\ eng.config.pii_action = REDACT
    /\ HasAny(eng.detections, PiiCategories)
    /\ ~HasAny(eng.detections, InjectionCategories)
    /\ ~HasAny(eng.detections, FinanceCategories)
    /\ MaxSeverity(eng.detections, ToxicCategories) \notin {HIGH, CRITICAL} )
    => eng.action = REDACT /\ eng.has_redacted_text

(***************************************************************************)
(* pii.py and the PII part of engine.py                                    *)
(*                                                                         *)
(* A text is a sequence of atoms: "7" is a digit, "A" a capital letter,    *)
(* "@", "." and ":" themselves, "pwd" the three letters of that keyword    *)
(* and "R" the ten characters of the replacement "[REDACTED]".  Positions  *)
(* count atoms from 1, and a span is start_pos..end_pos - 1 as in Python.  *)
(* The texts analysed are the email "A@A.AA", the keyword "pwd" or "pwd:", *)
(* up to two letters and a run of digits, each optional, in that order;    *)
(* and whatever redaction makes of them.  No text has a "." next to a     *)
(* digit, a letter after a digit, or a digit other than 7, so the patterns *)
(* of _build_patterns that need one (credit card without separators, PAN,  *)
(* IPv4, API keys) match nothing and are left out; the separators the      *)
(* other patterns allow do not occur.  Confidences are in hundredths.      *)
(***************************************************************************)
MaxDigits == 20       \* digits in a text

Atoms == {"7", "A", "@", ".", ":", "pwd", "R"}

\* len() of what the atom stands for
AtomLen(a) == IF a = "R" THEN 10 ELSE IF a = "pwd" THEN 3 ELSE 1

Copies(a, n) == [i \in 1..n |-> a]

PiiTexts ==
  {e \o w \o Copies("A", a) \o Copies("7", k) :
     e \in {<<>>, <<"A", "@", "A", ".", "A", "A">>},
     w \in {<<>>, <<"pwd">>, <<"pwd", ":">>},
     a \in 0..2, k \in 0..MaxDigits}

\* PolicyConfig.pii_confidence_threshold: the default, and a lower one
Thresholds == {50, 80}

\* \w at position i
IsWord(text, i) == i \in DOMAIN text /\ text[i] \in {"7", "A", "pwd"}

\* \b before position i
Boundary(text, i) == IsWord(text, i - 1) # IsWord(text, i)

\* where the run of atoms of `chars` that starts at i ends
RECURSIVE RunEnd(_, _, _)
RunEnd(text, i, chars) ==
  IF i \in DOMAIN text /\ text[i] \in chars THEN RunEnd(text, i + 1, chars) ELSE i

\* len(text[i:e])
RECURSIVE CharCount(_, _, _)
CharCount(text, i, e) ==
  IF i >= e THEN 0 ELSE AtomLen(text[i]) + CharCount(text, i + 1, e)

\* \d{n}\b at i: the end of the match, 0 for no match
DigitsAt(text, i, n) ==
  IF RunEnd(text, i, {"7"}) >= i + n /\ Boundary(text, i + n) THEN i + n ELSE 0

\* the last "." of text[lo..hi] that a top-level domain and \b follow: the end of
\* the match, 0 for no match
RECURSIVE DomainEnd(_, _, _)
DomainEnd(text, lo, hi) ==
  IF hi < lo THEN 0
  ELSE LET e == RunEnd(text, hi + 1, {"A", "pwd"}) IN
       IF text[hi] = "." /\ CharCount(text, hi + 1, e) >= 2 /\ Boundary(text, e)
         THEN e
         ELSE DomainEnd(text, lo, hi - 1)

\* \b[A-Za-z0-9._%+-]+@[A-Za-z0-9.-]+\.[A-Z|a-z]{2,}\b at i
EmailAt(text, i) ==
  LET at == RunEnd(text, i, {"7", "A", "pwd", "."}) IN
  IF Boundary(text, i) /\ at > i /\ at \in DOMAIN text /\ text[at] = "@"
    THEN DomainEnd(text, at + 2, RunEnd(text, at + 1, {"7", "A", "pwd", "."}) - 1)
    ELSE 0

\* (?:\+?\d{1,3}[-.\s]?)?\(?\d{3}\)?[-.\s]?\d{3}[-.\s]?\d{4}\b at i: the country
\* code is tried with three digits, two, one, and then left out
PhoneAt(text, i) ==
  IF DigitsAt(text, i, 13) # 0 THEN DigitsAt(text, i, 13)
  ELSE IF DigitsAt(text, i, 12) # 0 THEN DigitsAt(text, i, 12)
  ELSE IF DigitsAt(text, i, 11) # 0 THEN DigitsAt(text, i, 11)
  ELSE DigitsAt(text, i, 10)

\* (?:password|passwd|pwd|...)\s*[:=]\s*["']?([^\s"']{8,})["']? at i: the value runs
\* to the end of the text, which has no blank and no quote
PasswordAt(text, i) ==
  IF /\ i + 1 \in DOMAIN text /\ text[i] = "pwd" /\ text[i + 1] = ":"
     /\ CharCount(text, i + 2, Len(text) + 1) >= 8
    THEN Len(text) + 1
    ELSE 0

\* \b[A-Z]{1,2}[0-9]{6,9}\b at i
PassportAt(text, i) ==
  IF Boundary(text, i) /\ i \in DOMAIN text /\ text[i] = "A"
    THEN LET d == IF i + 1 \in DOMAIN text /\ text[i + 1] = "A" THEN i + 2 ELSE i + 1
             e == RunEnd(text, d, {"7"})
         IN IF e - d >= 6 /\ e - d <= 9 /\ Boundary(text, e) THEN e ELSE 0
    ELSE 0

\* PIIDetector._build_patterns, in its order
PIIPatterns ==
  << [name |-> "email", category |-> PII_EMAIL, severity |-> MEDIUM, confidence |-> 95],
     [name |-> "phone", category |-> PII_PHONE, severity |-> MEDIUM, confidence |-> 85],
     [name |-> "indian_phone", category |-> PII_PHONE, severity |-> MEDIUM, confidence |-> 90],
     [name |-> "credit_card", category |-> PII_CREDIT_CARD, severity |-> CRITICAL,
      confidence |-> 85],
     [name |-> "ssn", category |-> PII_SSN, severity |-> CRITICAL, confidence |-> 80],
     [name |-> "aadhaar", category |-> PII_AADHAAR, severity |-> CRITICAL, confidence |-> 85],
     [name |-> "password", category |-> PII_PASSWORD, severity |-> CRITICAL,
      confidence |-> 80],
     [name |-> "passport", category |-> PII_PASSPORT, severity |-> HIGH, confidence |-> 60] >>

\* pattern.match(text, i): the end of the match, 0 for no match
MatchAt(name, text, i) ==
  CASE name = "email" -> EmailAt(text, i)
    [] name = "phone" -> PhoneAt(text, i)
    [] name = "indian_phone" -> DigitsAt(text, i, 10)
    [] name = "credit_card" -> IF Boundary(text, i) THEN DigitsAt(text, i, 16) ELSE 0
    [] name = "ssn" -> IF Boundary(text, i) THEN DigitsAt(text, i, 9) ELSE 0
    [] name = "aadhaar" -> IF Boundary(text, i) THEN DigitsAt(text, i, 12) ELSE 0
    [] name = "password" -> PasswordAt(text, i)
    [] name = "passport" -> PassportAt(text, i)

\* pattern.finditer(text) from position pos on, as detections.  _validate_aadhaar
\* holds of twelve digits 7, so no confidence is halved.
RECURSIVE FindIter(_, _, _)
FindIter(pattern, text, pos) ==
  IF pos > Len(text) THEN <<>>
  ELSE LET e == MatchAt(pattern.name, text, pos) IN
       IF e = 0 THEN FindIter(pattern, text, pos + 1)
       ELSE <<[category |-> pattern.category, severity |-> pattern.severity,
               confidence |-> pattern.confidence, start_pos |-> pos, end_pos |-> e]>>
              \o FindIter(pattern, text, e)

\* PIIDetector.detect, up to _deduplicate: the matches of the patterns from the k-th on
RECURSIVE Matches(_, _)
Matches(text, k) ==
  IF k > Len(PIIPatterns) THEN <<>>
  ELSE FindIter(PIIPatterns[k], text, 1) \o Matches(text, k + 1)

Front(seq) == SubSeq(seq, 1, Len(seq) - 1)

\* key=lambda d: (d.start_pos, -d.confidence)
Before(a, b) ==
  \/ a.start_pos < b.start_pos
  \/ a.start_pos = b.start_pos /\ a.confidence > b.confidence

\* sorted(detections, key=...), which is stable
RECURSIVE InsertSorted(_, _)
InsertSorted(d, sorted) ==
  IF sorted = <<>> THEN <<d>>
  ELSE IF Before(d, sorted[Len(sorted)])
    THEN Append(InsertSorted(d, Front(sorted)), sorted[Len(sorted)])
    ELSE Append(sorted, d)

RECURSIVE SortedDetections(_)
SortedDetections(detections) ==
  IF detections = <<>> THEN <<>>
  ELSE InsertSorted(detections[Len(detections)], SortedDetections(Front(detections)))

\* the loop of _deduplicate over sorted_detections[k..]
RECURSIVE DeduplicateFrom(_, _, _, _)
DeduplicateFrom(sorted, k, result, last_end) ==
  IF k > Len(sorted) THEN result
  ELSE LET detection == sorted[k] IN
       IF detection.start_pos >= last_end
         THEN DeduplicateFrom(sorted, k + 1, Append(result, detection), detection.end_pos)
       ELSE IF detection.confidence > result[Len(result)].confidence
         THEN DeduplicateFrom(sorted, k + 1, Append(Front(result), detection),
                              detection.end_pos)
       ELSE DeduplicateFrom(sorted, k + 1, result, last_end)

\* PIIDetector._deduplicate
deduplicate(detections) == DeduplicateFrom(SortedDetections(detections), 1, <<>>, 0)

\* PIIDetector.detect
pii_detect(text) == deduplicate(Matches(text, 1))

\* the loop of _redact_text over pii_detections, which has the greatest start_pos last
RECURSIVE RedactFrom(_, _)
RedactFrom(text, sorted) ==
  IF sorted = <<>> THEN text
  ELSE LET detection == sorted[Len(sorted)] IN
       RedactFrom(SubSeq(text, 1, detection.start_pos - 1) \o <<"R">>
                    \o SubSeq(text, detection.end_pos, Len(text)),
                  Front(sorted))

\* Restrictor._redact_text
redact_text(text, detections) ==
  RedactFrom(text,
             SortedDetections(SelectSeq(detections, LAMBDA d : d.category \in PiiCategories)))

NoSeverity == "None"

\* Restrictor.analyze of a text in which only the PII detector finds something,
\* under PolicyConfig(pii_confidence_threshold=threshold): the Decision
analyze(text, threshold) ==
  LET all_detections == SelectSeq(pii_detect(text), LAMBDA d : d.confidence >= threshold)
      action == determine_action(all_detections, DefaultPolicy)
      redacts == action = REDACT /\ all_detections # <<>>
  IN [action |-> action, detections |-> all_detections,
      max_severity |-> NoSeverity, max_confidence |-> 0,
      has_redacted_text |-> redacts,
      redacted_text |-> IF redacts THEN redact_text(text, all_detections) ELSE <<>>]

(***************************************************************************)
(* SpecPii: a text is analysed, and the redacted_text of a redact decision *)
(* is analysed again under the same policy.                                *)
(***************************************************************************)
piiUnchanged == UNCHANGED <<now, cbVars, available, detVars, tox, eng, fb, lrn, an, thr, moreVars>>

PiiSubmit ==
  /\ pii.pc = "idle"
  /\ \E text \in PiiTexts, threshold \in Thresholds :
       pii' = [pc |-> "submitted", pass |-> 1, text |-> text, threshold |-> threshold]
  /\ piiUnchanged

PiiAnalyze ==
  /\ pii.pc = "submitted"
  /\ pii' = [pc |-> "analyzed", pass |-> pii.pass, text |-> pii.text,
             threshold |-> pii.threshold, matches |-> Matches(pii.text, 1),
             decision |-> analyze(pii.text, pii.threshold)]
  /\ piiUnchanged

PiiResubmit ==
  /\ pii.pc = "analyzed" /\ pii.pass = 1
  /\ pii.decision.has_redacted_text
  /\ pii' = [pc |-> "submitted", pass |-> 2, text |-> pii.decision.redacted_text,
             threshold |-> pii.threshold]
  /\ piiUnchanged

NextPii == PiiSubmit \/ PiiAnalyze \/ PiiResubmit

SpecPii == InitCB /\ [][NextPii]_vars

Overlap(a, b) == a.start_pos < b.end_pos /\ b.start_pos < a.end_pos

\* C11: redaction is idempotent: the analysis of the redacted_text of a redact
\* decision, under the same policy, redacts nothing more.
C11_RedactionIdempotent ==
  (pii.pc = "analyzed" /\ pii.pass = 2) =>
    (pii.decision.has_redacted_text => pii.decision.redacted_text = pii.text)

\* C12: of two PII matches whose spans overlap, the one of lower confidence is
\* never the one that survives in Decision.detections.
C12_HigherConfidenceSurvives ==
  pii.pc = "analyzed" =>
    \A i, j \in DOMAIN pii.matches :
      (Overlap(pii.matches[i], pii.matches[j])
         /\ pii.matches[i].confidence > pii.matches[j].confidence)
        => \/ \E k \in DOMAIN pii.decision.detections :
                pii.decision.detections[k] = pii.matches[i]
           \/ ~\E k \in DOMAIN pii.decision.detections :
                 pii.decision.detections[k] = pii.matches[j]

\* max(d.confidence for d in detections)
MaxOfConfidences(detections) ==
  CHOOSE c \in {detections[i].confidence : i \in DOMAIN detections} :
    \A i \in DOMAIN detections : detections[i].confidence <= c

\* C13: the max_severity and max_confidence of a Decision that analyze returns
\* are the greatest severity and the greatest confidence of its detections.
C13_AggregatesAreMaxima ==
  (pii.pc = "analyzed" /\ pii.decision.detections # <<>>) =>
    /\ pii.decision.max_severity = MaxSeverity(pii.decision.detections, Category)
    /\ pii.decision.max_confidence = MaxOfConfidences(pii.decision.detections)

(***************************************************************************)
(* feedback/storage.py and feedback/redis_storage.py                       *)
(*                                                                         *)
(* Request ids are numbered as Decision.create_request_id hands them out,  *)
(* feedback ids as uuid4 does.  A cache entry is the request id and the    *)
(* time it was cached; a FeedbackRecord is its feedback_id, request_id,    *)
(* feedback_type and included_in_training.  The file backend's cache is    *)
(* scaled from 10000 entries to cache_max_size.                            *)
(***************************************************************************)
MaxCached == 12         \* requests cached
MaxFeedback == 2        \* feedback records stored
MaxClock == 3600        \* the storage's clock stops here
cache_max_size == 10    \* FileFeedbackStorage._cache_max_size, scaled

cache_ttl == 3600
ClockStep == 1800

Backends == {"file", "redis"}
FeedbackTypes == {"correct", "false_negative"}
NoRecord == [feedback_id |-> 0]

\* FileFeedbackStorage.__init__, RedisFeedbackStorage.__init__; client_up is whether
\* RedisFeedbackStorage.client is a connection
NewStorage(backend, client_up) ==
  [pc |-> "ready", backend |-> backend, client_up |-> client_up, clock |-> 0,
   next_id |-> 1, next_fid |-> 1, cache |-> <<>>, feedback |-> <<>>, index |-> {},
   op |-> "init", req |-> 0, live |-> FALSE, result |-> NoRecord,
   feedback_before |-> <<>>, index_before |-> {}]

\* FileFeedbackStorage.cache_request: the cache afterwards
file_cache_request(cache, request_id, t) ==
  LET kept == IF Len(cache) >= cache_max_size
                THEN SubSeq(cache, (Len(cache) \div 10) + 1, Len(cache))
                ELSE cache
  IN Append(kept, [request_id |-> request_id, at |-> t])

\* RedisFeedbackStorage.cache_request: setex request_cache:{request_id}
redis_cache_request(cache, request_id, t, client_up) ==
  IF ~client_up THEN cache
  ELSE Append(SelectSeq(cache, LAMBDA e : e.request_id # request_id),
              [request_id |-> request_id, at |-> t])

\* the keys Redis still holds at time t: an entry lives for cache_ttl seconds
Unexpired(cache, t) == SelectSeq(cache, LAMBDA e : t - e.at < cache_ttl)

\* self._request_cache.get(request_id), self.client.get("request_cache:...")
Cached(st, request_id) ==
  LET entries == IF st.backend = "redis" THEN Unexpired(st.cache, st.clock) ELSE st.cache
  IN \E i \in DOMAIN entries : entries[i].request_id = request_id

\* the stored record with this request_id and feedback_type, if any
Existing(st, request_id, feedback_type) ==
  SelectSeq(st.feedback,
            LAMBDA r : r.request_id = request_id /\ r.feedback_type = feedback_type)

\* store_feedback on a missing cache entry, had it stored a record all the same
store_feedback_unlinked(st, request_id, feedback_type) ==
  LET record == [feedback_id |-> st.next_fid, request_id |-> request_id,
                 feedback_type |-> feedback_type, included_in_training |-> FALSE]
  IN [st EXCEPT !.feedback = Append(@, record), !.next_fid = @ + 1, !.result = record,
                !.index = IF st.backend = "redis"
                            THEN @ \cup {<<request_id, st.next_fid>>} ELSE @]

\* FileFeedbackStorage.store_feedback and RedisFeedbackStorage.store_feedback: the
\* storage afterwards, with the record returned in result (NoRecord for None)
store_feedback(st, request_id, feedback_type) ==
  IF st.backend = "redis" /\ ~st.client_up THEN [st EXCEPT !.result = NoRecord]
  ELSE IF ~Cached(st, request_id) THEN [st EXCEPT !.result = NoRecord]
  ELSE IF Existing(st, request_id, feedback_type) # <<>>
    THEN [st EXCEPT !.result = Existing(st, request_id, feedback_type)[1]]
  ELSE store_feedback_unlinked(st, request_id, feedback_type)

(***************************************************************************)
(* SpecFeedback: requests are cached, time passes, feedback is submitted.  *)
(***************************************************************************)
fbUnchanged == UNCHANGED <<now, cbVars, available, detVars, tox, eng, pii, lrn, an, thr, moreVars>>

FbCreate ==
  /\ fb.pc = "idle"
  /\ \E backend \in Backends, client_up \in BOOLEAN :
       /\ backend = "file" => client_up
       /\ fb' = NewStorage(backend, client_up)
  /\ fbUnchanged

\* the analyze endpoint caches the request it answered
FbCacheRequest ==
  /\ fb.pc = "ready"
  /\ fb.next_id <= MaxCached
  /\ fb' = [fb EXCEPT
        !.cache = IF fb.backend = "file"
                    THEN file_cache_request(fb.cache, fb.next_id, fb.clock)
                    ELSE redis_cache_request(Unexpired(fb.cache, fb.clock), fb.next_id,
                                             fb.clock, fb.client_up),
        !.next_id = @ + 1, !.op = "cache_request", !.req = fb.next_id]
  /\ fbUnchanged

\* feedback for the oldest request, the latest one, or an id never handed out
FbStoreFeedback ==
  /\ fb.pc = "ready"
  /\ Len(fb.feedback) < MaxFeedback
  /\ \E request_id \in {1, fb.next_id - 1, fb.next_id} \ {0},
        feedback_type \in FeedbackTypes :
       fb' = [store_feedback(fb, request_id, feedback_type) EXCEPT
                !.op = "store_feedback", !.req = request_id,
                !.live = Cached(fb, request_id),
                !.feedback_before = fb.feedback, !.index_before = fb.index]
  /\ fbUnchanged

\* a Redis command of store_feedback raises: the except branch returns None
FbStoreFeedbackError ==
  /\ fb.pc = "ready"
  /\ fb.backend = "redis" /\ fb.client_up
  /\ \E request_id \in {1, fb.next_id - 1, fb.next_id} \ {0} :
       fb' = [fb EXCEPT !.op = "store_feedback", !.req = request_id,
                        !.live = Cached(fb, request_id), !.result = NoRecord,
                        !.feedback_before = fb.feedback, !.index_before = fb.index]
  /\ fbUnchanged

FbTick ==
  /\ fb.pc = "ready"
  /\ fb.clock < MaxClock
  /\ fb' = [fb EXCEPT !.clock = @ + ClockStep, !.op = "tick",
                      !.cache = IF fb.backend = "redis"
                                  THEN Unexpired(@, fb.clock + ClockStep) ELSE @]
  /\ fbUnchanged

NextFeedback ==
  FbCreate \/ FbCacheRequest \/ FbStoreFeedback \/ FbStoreFeedbackError \/ FbTick

SpecFeedback == InitCB /\ [][NextFeedback]_vars

\* C14: store_feedback for a request_id that has no live cache entry (never
\* cached, expired, or evicted) returns None and leaves the stored feedback and
\* the indexes as they were.
C14_UnknownRequestIsNotFound ==
  (fb.pc = "ready" /\ fb.op = "store_feedback" /\ ~fb.live) =>
    /\ fb.result = NoRecord
    /\ fb.feedback = fb.feedback_before
    /\ fb.index = fb.index_before

\* an evicted entry of the file backend, an expired one of Redis
C14_Witness ==
  /\ fb.pc = "ready" /\ fb.op = "store_feedback" /\ ~fb.live
  /\ fb.req < fb.next_id /\ fb.backend = "file"
  /\ fb.result = NoRecord /\ Len(fb.feedback) > 0

C14_WitnessExpired ==
  /\ fb.pc = "ready" /\ fb.op = "store_feedback" /\ ~fb.live
  /\ fb.req < fb.next_id /\ fb.backend = "redis" /\ fb.client_up
  /\ fb.result = NoRecord /\ Len(fb.feedback) > 0

(***************************************************************************)
(* training/active_learner.py and detectors/escalation_classifier.py       *)
(*                                                                         *)
(* A feedback record in Redis is its approved and included_in_training     *)
(* flags, its feedback_type and its comment; its feedback_id is its place  *)
(* in the list.  A learned pattern is the lower-cased phrase it was made   *)
(* from.  A text for the classifier is a few phrases: "shut up" is one of  *)
(* suspicious_patterns, "family" one of safe_patterns, the others are in   *)
(* neither.                                                                *)
(***************************************************************************)
MaxRecords == 2       \* feedback records in Redis
MaxRuns == 2          \* run_training calls
MaxPhrases == 2       \* phrases in a text

Comments == {"", "hi", "quick zebra", "QUICK ZEBRA", "lazy fox"}
Phrases == {"shut up", "family", "quick zebra"}
ClfTexts == UNION {[1..n -> Phrases] : n \in 1..MaxPhrases}

\* text.lower().strip()
Lower(comment) == IF comment = "QUICK ZEBRA" THEN "quick zebra" ELSE comment

\* ActiveLearner.extract_patterns_from_text: nothing from a text shorter than
\* min_pattern_length, else the one pattern (?i)\b<text_lower>\b
extract_patterns_from_text(comment) ==
  IF comment \in {"", "hi"} THEN <<>> ELSE <<Lower(comment)>>

\* pattern.search(text)
Search(pattern, text) == \E i \in DOMAIN text : text[i] = pattern

BasePatterns == {"shut up"}
SafePatterns == {"family"}

\* the loop of run_training over feedback_list[k..]; lost are the records whose
\* mark_feedback_as_trained does nothing, because is_connected is False or a Redis
\* command raises and the error is only logged
RECURSIVE TrainFrom(_, _, _, _)
TrainFrom(st, feedback_list, k, lost) ==
  IF k > Len(feedback_list) THEN st
  ELSE LET fid == feedback_list[k]
           feedback == st.records[fid]
           new_patterns ==
             IF feedback.feedback_type = "false_negative" /\ feedback.comment # ""
               THEN extract_patterns_from_text(feedback.comment) ELSE <<>>
           adds == new_patterns # <<>>
                     /\ ~\E i \in DOMAIN st.learned : st.learned[i] = new_patterns[1]
           st1 == [st EXCEPT
                     !.learned = IF adds THEN Append(@, new_patterns[1]) ELSE @,
                     !.result.patterns_added = IF adds THEN @ + 1 ELSE @,
                     !.result.patterns_skipped =
                        IF new_patterns # <<>> /\ ~adds THEN @ + 1 ELSE @,
                     !.records[fid].included_in_training = (@ \/ fid \notin lost),
                     !.result.feedback_processed = @ + 1,
                     !.result.processed = @ \cup {fid}]
       IN TrainFrom(st1, feedback_list, k + 1, lost)

\* ActiveLearner.get_training_feedback: the ids of the approved records not yet trained
get_training_feedback(st) ==
  SelectSeq([i \in DOMAIN st.records |-> i],
            LAMBDA fid : st.records[fid].approved
                           /\ ~st.records[fid].included_in_training)

\* ActiveLearner.load_learned_patterns: the list in the file, or the empty list of
\* the default data when there is no file or when opening or parsing it raises
load_learned_patterns(st, load_ok) ==
  IF st.patterns # <<>> /\ load_ok THEN st.patterns ELSE <<>>

\* ActiveLearner.save_learned_patterns: the file rewritten with data, or left as
\* it was when opening it for writing raises, which is only logged
save_learned_patterns(st, data, save_ok) ==
  IF save_ok THEN [st EXCEPT !.patterns = data] ELSE st

\* ActiveLearner.run_training; connected is is_connected at get_training_feedback.
\* learned is the run's learned_data, saved to the file only if a pattern was added.
run_training(st, connected, lost, load_ok, save_ok) ==
  LET st0 == [st EXCEPT !.learned = load_learned_patterns(st, load_ok),
                        !.result = [feedback_processed |-> 0, patterns_added |-> 0,
                                    patterns_skipped |-> 0, processed |-> {}]]
      feedback_list == IF connected THEN get_training_feedback(st) ELSE <<>>
      st1 == TrainFrom(st0, feedback_list, 1, lost)
  IN IF st1.result.patterns_added > 0
       THEN save_learned_patterns(st1, st1.learned, save_ok) ELSE st1

\* the learned patterns that re.compile rejects; run_training writes none of them
\* (extract_patterns_from_text escapes the text), a file written by hand can
Malformed == {"(("}

\* the loop of _load_learned_patterns: how many patterns it appends before it is
\* left, at the first one that re.compile rejects (the handler of re.error calls
\* the undefined logger) or at the end of the list
Compiles(patterns) ==
  IF \E i \in DOMAIN patterns : patterns[i] \in Malformed
    THEN (CHOOSE i \in DOMAIN patterns :
            /\ patterns[i] \in Malformed
            /\ \A j \in 1..(i - 1) : patterns[j] \notin Malformed) - 1
    ELSE Len(patterns)

\* EscalationClassifier.__init__: _compiled_patterns is made of suspicious_patterns
\* before _load_learned_patterns appends the learned ones to suspicious_patterns,
\* and the logger that _load_learned_patterns then calls is not defined in the
\* module, so with a learned pattern in the file __init__ raises NameError
escalation_classifier_init(patterns) ==
  [compiled |-> BasePatterns,
   suspicious |-> BasePatterns \cup {patterns[i] : i \in 1..Compiles(patterns)},
   loaded |-> {patterns[i] : i \in 1..Compiles(patterns)},
   raised |-> patterns # <<>>]

\* EscalationClassifier.classify: needs_escalation
classify(clf, text) ==
  IF \E p \in SafePatterns : Search(p, text) THEN FALSE
  ELSE \E p \in clf.compiled : Search(p, text)

(***************************************************************************)
(* SpecLearn: feedback comes in and is approved or not, the training job   *)
(* runs, classifiers are constructed and reloaded, and texts classified.   *)
(***************************************************************************)
lrnUnchanged == UNCHANGED <<now, cbVars, available, detVars, tox, eng, pii, fb, an, thr, moreVars>>

NoClassifier == [exists |-> FALSE]

LrnStart ==
  /\ lrn.pc = "idle"
  /\ lrn' = [pc |-> "ready", records |-> <<>>, patterns |-> <<>>, learned |-> <<>>,
             result |-> [feedback_processed |-> 0, patterns_added |-> 0,
                         patterns_skipped |-> 0, processed |-> {}],
             runs |-> 0, fresh |-> FALSE, op |-> "init", clf |-> NoClassifier,
             persisted |-> {},
             text |-> <<>>, needs_escalation |-> FALSE]
  /\ lrnUnchanged

LrnFeedback ==
  /\ lrn.pc = "ready"
  /\ Len(lrn.records) < MaxRecords
  /\ \E approved \in BOOLEAN, feedback_type \in FeedbackTypes, comment \in Comments :
       lrn' = [lrn EXCEPT
                 !.records = Append(@, [approved |-> approved,
                                        included_in_training |-> FALSE,
                                        feedback_type |-> feedback_type,
                                        comment |-> comment]),
                 !.fresh = TRUE, !.op = "feedback"]
  /\ lrnUnchanged

LrnRunTraining ==
  /\ lrn.pc = "ready"
  /\ lrn.runs < MaxRuns
  /\ \E connected \in BOOLEAN, lost \in SUBSET DOMAIN lrn.records,
        load_ok \in BOOLEAN, save_ok \in BOOLEAN :
       /\ lost \subseteq {get_training_feedback(lrn)[i] :
                            i \in DOMAIN get_training_feedback(lrn)}
       /\ ~connected => lost = {}
       /\ LET st == run_training(lrn, connected, lost, load_ok, save_ok) IN
          lrn' = [st EXCEPT
                    !.runs = @ + 1, !.op = "run_training",
                    !.fresh = (lrn.fresh /\ ~connected),
                    !.persisted = @ \cup {st.patterns[i] : i \in DOMAIN st.patterns}]
  /\ lrnUnchanged

\* EscalationClassifier(): no object comes of a constructor that raises
LrnConstruct ==
  /\ lrn.pc = "ready"
  /\ LET clf == escalation_classifier_init(lrn.patterns) IN
     lrn' = [lrn EXCEPT !.op = "construct",
                        !.clf = IF clf.raised THEN [exists |-> FALSE, raised |-> TRUE]
                                ELSE [exists |-> TRUE] @@ clf]
  /\ lrnUnchanged

\* reload_patterns: self.__init__() on the object, which keeps what __init__ had
\* assigned when it raised
LrnReload ==
  /\ lrn.pc = "ready"
  /\ lrn.clf.exists
  /\ lrn' = [lrn EXCEPT !.op = "reload",
                        !.clf = [exists |-> TRUE] @@ escalation_classifier_init(lrn.patterns)]
  /\ lrnUnchanged

LrnClassify ==
  /\ lrn.pc = "ready"
  /\ lrn.clf.exists
  /\ \E text \in ClfTexts :
       lrn' = [lrn EXCEPT !.op = "classify", !.text = text,
                          !.needs_escalation = classify(lrn.clf, text)]
  /\ lrnUnchanged

NextLearn ==
  LrnStart \/ LrnFeedback \/ LrnRunTraining \/ LrnConstruct \/ LrnReload \/ LrnClassify

SpecLearn == InitCB /\ [][NextLearn]_vars

\* C15: a classifier constructed or reloaded after a learned pattern was persisted
\* escalates every text that the learned pattern matches and no safe pattern
\* matches, and constructing or reloading it does not fail.
C15_LearnedPatternEscalates ==
  /\ (lrn.pc = "ready" /\ lrn.op \in {"construct", "reload"}) => ~lrn.clf.raised
  /\ (lrn.pc = "ready" /\ lrn.op = "classify"
        /\ (\E p \in lrn.clf.loaded : Search(p, lrn.text))
        /\ ~\E p \in SafePatterns : Search(p, lrn.text))
       => lrn.needs_escalation

\* C16: every record that run_training processed is marked included_in_training,
\* and a run_training with no feedback added since the last run processes no
\* record and adds no pattern.
C16_FeedbackConsumedOnce ==
  (lrn.pc = "ready" /\ lrn.op = "run_training") =>
    /\ \A fid \in lrn.result.processed : lrn.records[fid].included_in_training
    /\ (lrn.runs > 1 /\ ~lrn.fresh) =>
          (lrn.result.feedback_processed = 0 /\ lrn.result.patterns_added = 0)

(***************************************************************************)
(* SpecLoad: the pattern file as EscalationClassifier finds it, written by *)
(* run_training or by hand; classifiers are constructed and reloaded on it *)
(* and texts classified.                                                   *)
(***************************************************************************)
MaxPatterns == 2      \* learned patterns in the file

PatternFiles ==
  UNION {[1..n -> {"quick zebra", "lazy fox"} \cup Malformed] : n \in 0..MaxPatterns}

\* the file is there when the process starts, or is replaced while it runs
LrnFile ==
  /\ \E patterns \in PatternFiles :
       \/ /\ lrn.pc = "idle"
          /\ lrn' = [pc |-> "ready", records |-> <<>>, patterns |-> patterns,
                     learned |-> <<>>,
                     result |-> [feedback_processed |-> 0, patterns_added |-> 0,
                                 patterns_skipped |-> 0, processed |-> {}],
                     runs |-> 0, fresh |-> FALSE, op |-> "init", clf |-> NoClassifier,
                     persisted |-> {patterns[i] : i \in DOMAIN patterns},
                     text |-> <<>>, needs_escalation |-> FALSE]
       \/ /\ lrn.pc = "ready"
          /\ lrn' = [lrn EXCEPT !.patterns = patterns, !.op = "file",
                                !.persisted = {patterns[i] : i \in DOMAIN patterns}]
  /\ lrnUnchanged

NextLoad == LrnFile \/ LrnConstruct \/ LrnReload \/ LrnClassify

SpecLoad == InitCB /\ [][NextLoad]_vars

\* C27: a malformed learned pattern is skipped, not fatal: with a persisted
\* learned pattern that is not a valid regex, constructing or reloading the
\* classifier does not fail, and the base patterns and the other learned
\* patterns are among the classifier's patterns.
C27_MalformedPatternSkipped ==
  (lrn.pc = "ready" /\ lrn.op \in {"construct", "reload"}
     /\ \E i \in DOMAIN lrn.patterns : lrn.patterns[i] \in Malformed) =>
    /\ ~lrn.clf.raised
    /\ lrn.clf.exists
    /\ BasePatterns \subseteq lrn.clf.suspicious
    /\ \A i \in DOMAIN lrn.patterns :
         lrn.patterns[i] \notin Malformed => lrn.patterns[i] \in lrn.clf.suspicious

\* C26: the persisted learned-pattern list is append-only and duplicate-free:
\* after any run_training calls, also those in which loading or saving the
\* pattern file fails, every pattern that was ever persisted is still in the
\* file, and no pattern appears in it twice.
C26_PatternsAppendOnly ==
  lrn.pc = "ready" =>
    /\ \A p \in lrn.persisted : \E i \in DOMAIN lrn.patterns : lrn.patterns[i] = p
    /\ \A i, j \in DOMAIN lrn.patterns : lrn.patterns[i] = lrn.patterns[j] => i = j

(***************************************************************************)
(* Restrictor.analyze, its toxicity stage: ToxicityDetector.detect with    *)
(* the premium stage done by ClaudeDetector.detect on the shared usage     *)
(* counters and the shared breaker, and _determine_action on what detect   *)
(* returned.  One text is analysed MaxAnalyses times with the same policy; *)
(* the local model's answer for the text and the premium classifier's      *)
(* verdict on it are fixed with the text.                                  *)
(***************************************************************************)
MaxAnalyses == 3      \* analyze calls on the text

AnTexts == {t \in Texts : Len(t.words) <= 1 /\ t.pad \in {0, 1, 5}}

\* EscalationClassifier._is_clearly_safe on a text of Vocabulary: "hello" alone
\* matches ^(hi|hello|...)[\s.!?]*$ and "vacation" is one of \b(family|...|vacation|...)\b
is_clearly_safe(text) ==
  \/ word_count(text) = 1 /\ (text.pad = 1 \/ Has(text, {"hello"}))
  \/ Has(text, {"vacation in my"})

\* the words of Vocabulary that one of suspicious_patterns matches: none
SuspiciousWords == {}

\* EscalationClassifier.classify(text).needs_escalation on a text of Vocabulary
needs_escalation(text) == ~is_clearly_safe(text) /\ Has(text, SuspiciousWords)

\* ToxicityDetector.detect up to the premium stage: the filters, the keyword
\* stage and the MoE stage, the local model answering t.moe
detect_local(t) ==
  LET t1 == filter_stage(t) IN
  IF t1.pc = "done" THEN t1
  ELSE LET t2 == keyword_stage(t1) IN
       IF t2.pc = "done" THEN t2
       ELSE moe_stage(t2, IF t2.use_moe THEN t2.moe ELSE <<>>)

\* analyze, once the detectors have returned: the action, and the call is over
Finish(t) ==
  LET action == determine_action(t.result, DefaultPolicy) IN
  [t EXCEPT !.pc = "done", !.n = @ + 1, !.action = action,
            !.first = IF t.n = 0 THEN [result |-> t.result, action |-> action] ELSE @]

anUnchanged == UNCHANGED <<now, cbVars, available, detVars, tox, eng, pii, fb, lrn, thr, moreVars>>

\* a Restrictor with the default policy, and the text it is given
AnSetup ==
  /\ an.pc = "idle"
  /\ \E text \in AnTexts, moe \in MoeResults, verdict \in ClaudeResults :
       an' = [pc |-> "ready", text |-> text, use_moe |-> TRUE, use_claude |-> TRUE,
              moe |-> moe, verdict |-> verdict, result |-> <<>>, keyword_ran |-> FALSE,
              n |-> 0, first |-> [result |-> <<>>, action |-> ALLOW], action |-> ALLOW,
              began |-> 0, api_called |-> FALSE, premium |-> "none"]
  /\ anUnchanged

\* analyze(text): the local stages of detect; the call is over unless they hand
\* the text to the premium stage
AnAnalyze ==
  /\ an.pc \in {"ready", "done"}
  /\ an.n < MaxAnalyses
  /\ LET t == detect_local([an EXCEPT !.pc = "filters", !.result = <<>>,
                                      !.keyword_ran = FALSE, !.api_called = FALSE,
                                      !.premium = "none"])
     IN an' = IF t.pc = "done" THEN Finish(t) ELSE [t EXCEPT !.began = started]
  /\ anUnchanged

\* _claude_detect: claude.detect(text), the steps of request thread 1
AnClaude ==
  /\ an.pc = "claude"
  /\ \/ an.began = started /\ CheckRateLimit(1)
     \/ Blocked(1) \/ CircuitCheck(1) \/ ApiAttempt(1) \/ Sleep(1)
     \/ RecordUsage(1) \/ Success(1) \/ Failure(1)

\* claude.detect has returned: the parsed verdict after record_success, [] after
\* anything else; detect returns it and analyze decides
AnClaudeReturn ==
  /\ an.pc = "claude"
  /\ started > an.began
  /\ pc[1] = "idle"
  /\ LET called == op \in {"record_success", "record_failure"}
         claude_detections == IF op = "record_success" THEN an.verdict ELSE <<>>
         premium == IF op = "record_success" THEN "answered"
                    ELSE IF op = "record_failure" THEN "failed" ELSE "rejected"
     IN an' = Finish(claude_stage([an EXCEPT !.api_called = called, !.premium = premium],
                                  claude_detections))
  /\ anUnchanged

\* time passes between two analyses
AnAdvance ==
  /\ an.pc = "done"
  /\ Advance

NextAnalyze == AnSetup \/ AnAnalyze \/ AnClaude \/ AnClaudeReturn \/ AnAdvance

SpecAnalyze == Init /\ [][NextAnalyze]_vars

\* C17: every analyze call on the same text with the same policy and the same
\* pattern/model state returns the detections and the action that the first call
\* returned, whatever the budget counters and the breaker are at each call.
C17_AnalyzeIsDeterministic ==
  (an.pc = "done" /\ an.n >= 2) =>
    (an.result = an.first.result /\ an.action = an.first.action)

\* C19: an analysis that called the premium API had a local-model stage that was
\* uncertain or gave nothing, a text for which EscalationClassifier.classify says
\* needs_escalation, and a breaker whose can_execute answered True.
C19_PremiumCallOnlyWhenAllPermit ==
  (an.pc = "done" /\ an.api_called) =>
    /\ an.moe = <<>> \/ MaxConfidence(an.moe) < 85
    /\ needs_escalation(an.text)
    /\ ret = TRUE

\* what the code does keep of C19: the local-model stage and the breaker
C19_GuardsOtherThanGate ==
  (an.pc = "done" /\ an.api_called) =>
    /\ an.moe = <<>> \/ MaxConfidence(an.moe) < 85
    /\ ret = TRUE

(***************************************************************************)
(* SpecRace: the request threads inside the calls of the one shared        *)
(* breaker.  CircuitBreaker holds no lock, so a thread can be preempted    *)
(* between any two of the reads and writes of a method: failure_count += 1 *)
(* is a read of the attribute and a later write of the value read plus 1.  *)
(* The breaker starts CLOSED after `consec` failures in a row.             *)
(***************************************************************************)
MaxCalls == 3         \* breaker calls the threads make

\* thr[i].failure_count is the value thread i read; thr[i].succeeded observes that
\* the thread has called record_success; `started` counts the calls made
raceUnchanged ==
  UNCHANGED <<now, from, lastFailAt, ret, admitted, hoSucc, available, usage, pc, att,
              resp, advances, apiTimes, tox, eng, pii, fb, lrn, an, moreVars>>

\* record_failure: the read of self.failure_count in `self.failure_count += 1`
RfRead(i) ==
  /\ thr[i].pc = "idle"
  /\ started < MaxCalls
  /\ started' = started + 1
  /\ thr' = [thr EXCEPT ![i].pc = "rf_write", ![i].failure_count = cb.failure_count]
  /\ op' = "rf_read"
  /\ UNCHANGED <<cb, consec>>
  /\ raceUnchanged

\* record_failure: the write of `self.failure_count += 1`
RfWrite(i) ==
  /\ thr[i].pc = "rf_write"
  /\ cb' = [cb EXCEPT !.failure_count = thr[i].failure_count + 1]
  /\ thr' = [thr EXCEPT ![i].pc = "rf_time"]
  /\ op' = "rf_write"
  /\ UNCHANGED <<consec, started>>
  /\ raceUnchanged

\* record_failure: self.last_failure_time = time.time()
RfTime(i) ==
  /\ thr[i].pc = "rf_time"
  /\ cb' = [cb EXCEPT !.last_failure_time = now]
  /\ thr' = [thr EXCEPT ![i].pc = "rf_check"]
  /\ op' = "rf_time"
  /\ UNCHANGED <<consec, started>>
  /\ raceUnchanged

\* record_failure: the two tests and _transition_to; the call is over
RfCheck(i) ==
  /\ thr[i].pc = "rf_check"
  /\ cb' = IF cb.state = HALF_OPEN THEN transition_to(cb, OPEN)
           ELSE IF cb.failure_count >= failure_threshold THEN transition_to(cb, OPEN)
           ELSE cb
  /\ thr' = [thr EXCEPT ![i].pc = "idle"]
  /\ op' = "record_failure"
  /\ consec' = consec + 1
  /\ UNCHANGED started
  /\ raceUnchanged

\* record_success: self.failure_count = 0
RsReset(i) ==
  /\ thr[i].pc = "idle"
  /\ started < MaxCalls
  /\ started' = started + 1
  /\ cb' = [cb EXCEPT !.failure_count = 0]
  /\ thr' = [thr EXCEPT ![i].pc = "rs_check", ![i].succeeded = TRUE]
  /\ op' = "rs_reset"
  /\ consec' = 0
  /\ raceUnchanged

\* record_success: the HALF_OPEN branch; the call is over
RsCheck(i) ==
  /\ thr[i].pc = "rs_check"
  /\ cb' = IF cb.state = HALF_OPEN
             THEN LET b2 == [cb EXCEPT !.success_count = @ + 1] IN
                  IF b2.success_count >= half_open_max_calls
                    THEN transition_to(b2, CLOSED) ELSE b2
             ELSE cb
  /\ thr' = [thr EXCEPT ![i].pc = "idle"]
  /\ op' = "record_success"
  /\ UNCHANGED <<consec, started>>
  /\ raceUnchanged

NextRace ==
  \E i \in Workers :
    RfRead(i) \/ RfWrite(i) \/ RfTime(i) \/ RfCheck(i) \/ RsReset(i) \/ RsCheck(i)

\* the breaker is CLOSED after k failed calls in a row, made one after the other
InitRace == \E k \in 0..(failure_threshold - 1) : InitAt(StartTime, k) /\ available = TRUE

SpecRace == InitRace /\ [][NextRace]_vars

\* C18: when every record_failure call made on the shared breaker has returned and
\* no thread has called record_success, failure_count is the number of the
\* failures, and the breaker is OPEN if that number has reached failure_threshold.
C18_NoLostUpdate ==
  (\A i \in Workers : thr[i].pc = "idle" /\ ~thr[i].succeeded) =>
    /\ cb.failure_count = consec
    /\ (consec >= failure_threshold => cb.state = OPEN)

(***************************************************************************)
(* Rejected premium calls, checked under Spec.                             *)
(***************************************************************************)
\* the steps of a call of thread i that the limiter or the breaker rejects:
\* _check_rate_limit answers not allowed, detect counts the blocked request and
\* returns [], or can_execute answers False and detect returns []
RejectedStep(i) ==
  \/ pc[i] = "idle" /\ pc'[i] = "blocked"
  \/ pc[i] = "blocked" /\ pc'[i] = "idle"
  \/ pc[i] = "circuit" /\ pc'[i] = "idle"

\* C20: a step of a premium call that the limiter or the open circuit rejects
\* issues no API call, records no breaker failure (the breaker is as it was), adds
\* no cost, no tokens, no request and no request timestamp to the usage, and the
\* call ends by returning.
C20_RejectedCallLeavesNoTrace ==
  [][\A i \in Workers :
       RejectedStep(i) =>
         /\ apiTimes' = apiTimes
         /\ cb' = cb
         /\ consec' = consec /\ lastFailAt' = lastFailAt
         /\ usage'.daily_cost_usd = usage.daily_cost_usd
         /\ usage'.total_requests = usage.total_requests
         /\ usage'.total_input_tokens = usage.total_input_tokens
         /\ usage'.total_output_tokens = usage.total_output_tokens
         /\ Len(usage'.request_timestamps) <= Len(usage.request_timestamps)
         /\ \A k \in DOMAIN usage'.request_timestamps :
              \E j \in DOMAIN usage.request_timestamps :
                usage'.request_timestamps[k] = usage.request_timestamps[j]
         /\ pc'[i] \in {"blocked", "idle"}]_vars

\* the limiter has rejected a call and the call has returned
C20_Witness ==
  /\ usage.blocked_requests > 0
  /\ \A i \in Workers : pc[i] = "idle"

\* the open circuit has rejected a call and the call has returned
C20_WitnessOpenCircuit ==
  /\ op = "can_execute" /\ ret = FALSE /\ cb.state = OPEN
  /\ \A i \in Workers : pc[i] = "idle"

(***************************************************************************)
(* The fallback of the toxicity stage, checked under SpecAnalyze.          *)
(***************************************************************************)
\* ToxicityDetector(use_claude=False).detect(text) on the text of the analysis
LocalOnly == detect_local([an EXCEPT !.pc = "filters", !.result = <<>>, !.use_claude = FALSE])

\* C21: an analysis whose premium stage was entered and got no answer (the limiter
\* or the breaker rejected the call, the API was not available, or every attempt
\* failed) returns what detect returns on the same text with the premium stage
\* disabled.
C21_FallsBackToLocalOnly ==
  (an.pc = "done" /\ an.premium \in {"rejected", "failed"}) =>
    (LocalOnly.pc = "done" /\ an.result = LocalOnly.result)

\* the retries were exhausted after an uncertain local detection
C21_Witness ==
  /\ an.pc = "done" /\ an.premium = "failed"
  /\ an.moe # <<>> /\ MaxConfidence(an.moe) >= 60
  /\ an.verdict # <<>>

C21_WitnessRejected ==
  /\ an.pc = "done" /\ an.premium = "rejected" /\ available
  /\ an.moe # <<>> /\ an.verdict # <<>>

C22_WitnessRetrySucceeded ==
  \E i \in Workers : pc[i] = "idle" /\ att[i] > 0 /\ op = "record_success"

(***************************************************************************)
(* SpecStages: Restrictor.analyze, one detector call a step.  The policy   *)
(* says which detectors run.  The text is a str or not (None), and what    *)
(* the pattern matchers find in it is given with it.  engine.py has no     *)
(* try around the detector calls: what a detector raises, analyze raises.  *)
(***************************************************************************)
StageConfigs == [detect_pii : BOOLEAN, detect_toxicity : BOOLEAN,
                 detect_prompt_injection : BOOLEAN]

PiiFound == <<[category |-> PII_EMAIL, severity |-> MEDIUM]>>
InjectionFound == <<[category |-> PROMPT_INJECTION, severity |-> HIGH]>>
\* what toxicity_detector.detect(text) can return
ToxicityFound == {<<>>, <<[category |-> TOXIC_HARASSMENT, severity |-> HIGH]>>}

stgUnchanged == UNCHANGED <<now, cbVars, available, detVars, tox, eng, pii, fb, lrn, an,
                            thr, use, sub>>

\* analyze(text) begins: all_detections = []
StgStart ==
  /\ stg.pc = "idle"
  /\ \E config \in StageConfigs, is_str \in BOOLEAN, has_pii \in BOOLEAN,
        has_injection \in BOOLEAN :
       stg' = [pc |-> "pii", config |-> config, is_str |-> is_str,
               has_pii |-> is_str /\ has_pii, has_injection |-> is_str /\ has_injection,
               ran |-> <<>>, all_detections |-> <<>>, action |-> ALLOW]
  /\ stgUnchanged

\* if self.config.detect_pii: self.pii_detector.detect(text); finditer raises
\* TypeError when text is not a str
StgPii ==
  /\ stg.pc = "pii"
  /\ stg' = IF ~stg.config.detect_pii THEN [stg EXCEPT !.pc = "toxicity"]
            ELSE IF ~stg.is_str
              THEN [stg EXCEPT !.pc = "raised", !.ran = Append(@, "pii")]
            ELSE [stg EXCEPT !.pc = "toxicity", !.ran = Append(@, "pii"),
                             !.all_detections =
                                IF stg.has_pii THEN @ \o PiiFound ELSE @]
  /\ stgUnchanged

\* if self.config.detect_toxicity: self.toxicity_detector.detect(text, ...).  The
\* property makes ToxicityDetector(use_gpu=...), which toxicity.py's __init__ does
\* not accept (TypeError); a detector already held in _toxicity_detector is
\* called and returns its detections ([] for a text that is not a str)
StgToxicity ==
  /\ stg.pc = "toxicity"
  /\ \/ /\ ~stg.config.detect_toxicity
        /\ stg' = [stg EXCEPT !.pc = "injection"]
     \/ /\ stg.config.detect_toxicity
        /\ stg' = [stg EXCEPT !.pc = "raised", !.ran = Append(@, "toxicity")]
     \/ /\ stg.config.detect_toxicity
        /\ \E found \in ToxicityFound :
             /\ stg.is_str \/ found = <<>>
             /\ stg' = [stg EXCEPT !.pc = "injection", !.ran = Append(@, "toxicity"),
                                   !.all_detections = @ \o found]
  /\ stgUnchanged

\* if self.config.detect_prompt_injection: self.injection_detector.detect(text)
StgInjection ==
  /\ stg.pc = "injection"
  /\ stg' = IF ~stg.config.detect_prompt_injection THEN [stg EXCEPT !.pc = "decide"]
            ELSE IF ~stg.is_str
              THEN [stg EXCEPT !.pc = "raised", !.ran = Append(@, "injection")]
            ELSE [stg EXCEPT !.pc = "decide", !.ran = Append(@, "injection"),
                             !.all_detections =
                                IF stg.has_injection THEN @ \o InjectionFound ELSE @]
  /\ stgUnchanged

\* action = self._determine_action(all_detections); return Decision(...)
StgDecide ==
  /\ stg.pc = "decide"
  /\ stg' = [stg EXCEPT !.pc = "decided",
                        !.action = determine_action(stg.all_detections, DefaultPolicy)]
  /\ stgUnchanged

NextStages == StgStart \/ StgPii \/ StgToxicity \/ StgInjection \/ StgDecide

SpecStages == InitCB /\ [][NextStages]_vars

\* the place of a stage in the stages run so far, 0 when it has not run
IndexOf(stage, ran) ==
  IF \E k \in DOMAIN ran : ran[k] = stage
    THEN CHOOSE k \in DOMAIN ran : ran[k] = stage ELSE 0

\* C23: when the toxicity stage of an analysis has run, every pattern matcher the
\* policy enables (PII, injection) had run before it, and no enabled injection
\* matcher has a detection for the text.
C23_ToxicityAfterMatchersUnlessVetoed ==
  (stg.pc # "idle" /\ IndexOf("toxicity", stg.ran) > 0) =>
    /\ stg.config.detect_pii =>
         (0 < IndexOf("pii", stg.ran) /\ IndexOf("pii", stg.ran) < IndexOf("toxicity", stg.ran))
    /\ stg.config.detect_prompt_injection =>
         /\ 0 < IndexOf("injection", stg.ran)
         /\ IndexOf("injection", stg.ran) < IndexOf("toxicity", stg.ran)
         /\ ~stg.has_injection

\* C24: an analysis in which a detector raised still ends with a Decision, after
\* every other detector the policy enables has run.
C24_DetectorFailureIsContained ==
  /\ stg.pc # "raised"
  /\ stg.pc = "decided" =>
       /\ stg.config.detect_pii => IndexOf("pii", stg.ran) > 0
       /\ stg.config.detect_toxicity => IndexOf("toxicity", stg.ran) > 0
       /\ stg.config.detect_prompt_injection => IndexOf("injection", stg.ran) > 0

(***************************************************************************)
(* SpecUsage: threads in ClaudeDetector._record_usage on one detector.     *)
(* Each += of the method is a read of the counter and a write of it, all   *)
(* of them inside `with self._lock`; get_usage_stats reads the counters    *)
(* under the same lock.  recorded sums the calls whose _record_usage is    *)
(* over.  The cost is in the units of INPUT_PRICE_PER_M.                   *)
(***************************************************************************)
MaxRecorded == 3      \* _record_usage calls

useUnchanged == UNCHANGED <<now, cbVars, available, detVars, tox, eng, pii, fb, lrn, an,
                            thr, stg, sub>>

NoLock == 0
NoStats == [taken |-> FALSE]
NoUsage == [total_input_tokens |-> 0, total_output_tokens |-> 0, total_requests |-> 0,
            daily_cost_usd |-> 0]

\* the counters that _record_usage adds to, in its order
UsageFields ==
  <<"total_input_tokens", "total_output_tokens", "total_requests", "daily_cost_usd">>

\* what _record_usage(input_tokens, output_tokens) adds to each of them
UsageDelta(input_tokens, output_tokens) ==
  [total_input_tokens |-> input_tokens, total_output_tokens |-> output_tokens,
   total_requests |-> 1,
   daily_cost_usd |-> input_tokens * INPUT_PRICE_PER_M + output_tokens * OUTPUT_PRICE_PER_M]

\* ClaudeDetector.__init__: self.usage = UsageStats(), self._lock = Lock()
UseStart ==
  /\ use.pc = "idle"
  /\ use' = [pc |-> "run", lock |-> NoLock, usage |-> NoUsage, recorded |-> NoUsage,
             calls |-> 0, stats |-> NoStats,
             th |-> [i \in Workers |->
                       [pc |-> "idle", input_tokens |-> 0, output_tokens |-> 0,
                        k |-> 1, reg |-> 0, calls |-> 0]]]
  /\ useUnchanged

\* detect: self._record_usage(response.usage.input_tokens, response.usage.output_tokens)
UseCall(i) ==
  /\ use.pc = "run"
  /\ use.th[i].pc = "idle"
  /\ use.calls < MaxRecorded
  /\ \E input_tokens \in 1..MaxInputTokens, output_tokens \in 1..MaxOutputTokens :
       use' = [use EXCEPT !.calls = @ + 1,
                          !.th[i] = [@ EXCEPT !.pc = "acquire",
                                              !.input_tokens = input_tokens,
                                              !.output_tokens = output_tokens,
                                              !.k = 1]]
  /\ useUnchanged

\* `with self._lock:` had the lock let a second thread in
UseAcquire_lets_in(i) ==
  /\ use.pc = "run"
  /\ use.th[i].pc = "acquire"
  /\ use' = [use EXCEPT !.lock = i, !.th[i].pc = "read"]
  /\ useUnchanged

\* _record_usage: `with self._lock:`, entered when no thread holds the lock
UseAcquire(i) ==
  /\ use.pc = "run"
  /\ use.th[i].pc = "acquire"
  /\ use.lock = NoLock
  /\ use' = [use EXCEPT !.lock = i, !.th[i].pc = "read"]
  /\ useUnchanged

\* the read of a +=
UseRead(i) ==
  /\ use.pc = "run"
  /\ use.th[i].pc = "read"
  /\ use' = [use EXCEPT !.th[i].reg = use.usage[UsageFields[use.th[i].k]],
                        !.th[i].pc = "write"]
  /\ useUnchanged

\* the write of a +=, and on to the next counter or to the end of the with block
UseWrite(i) ==
  /\ use.pc = "run"
  /\ use.th[i].pc = "write"
  /\ LET t == use.th[i]
         field == UsageFields[t.k]
     IN use' = [use EXCEPT
                  !.usage[field] = t.reg + UsageDelta(t.input_tokens, t.output_tokens)[field],
                  !.th[i].k = IF t.k < Len(UsageFields) THEN t.k + 1 ELSE 1,
                  !.th[i].pc = IF t.k < Len(UsageFields) THEN "read" ELSE "release"]
  /\ useUnchanged

\* the end of the with block: the lock is released and the call is over
UseRelease(i) ==
  /\ use.pc = "run"
  /\ use.th[i].pc = "release"
  /\ LET t == use.th[i]
         d == UsageDelta(t.input_tokens, t.output_tokens)
     IN use' = [use EXCEPT
                  !.lock = NoLock,
                  !.recorded = [f \in DOMAIN @ |-> @[f] + d[f]],
                  !.th[i].pc = "idle",
                  !.th[i].calls = @ + 1]
  /\ useUnchanged

\* get_usage_stats: the counters read under the lock; recorded is what the calls
\* over by then had handed in
UseStats ==
  /\ use.pc = "run"
  /\ use.lock = NoLock
  /\ use' = [use EXCEPT !.stats = [taken |-> TRUE, usage |-> use.usage,
                                   recorded |-> use.recorded]]
  /\ useUnchanged

NextUsage ==
  \/ UseStart
  \/ UseStats
  \/ \E i \in Workers :
       UseCall(i) \/ UseAcquire(i) \/ UseRead(i) \/ UseWrite(i) \/ UseRelease(i)

SpecUsage == InitCB /\ [][NextUsage]_vars

C28_WitnessContention ==
  /\ use.pc = "run"
  /\ use.lock = 1 /\ use.th[1].pc = "write" /\ use.th[1].k = 3
  /\ use.th[2].pc = "acquire"
  /\ use.recorded.total_requests = 1

(***************************************************************************)
(* SpecSubmit: concurrent store_feedback calls on one feedback store, for  *)
(* cached requests.  The file backend loads the whole list, looks for a    *)
(* duplicate, and writes the list back with the new record; the Redis      *)
(* backend reads the request's index and the records in it, then sets the  *)
(* record and adds it to the index.  Neither takes a lock, so a call is    *)
(* one step at each access of the store.                                   *)
(***************************************************************************)
MaxSubmits == 3       \* store_feedback calls
MaxSubRequests == 2   \* cached request ids

subUnchanged == UNCHANGED <<now, cbVars, available, detVars, tox, eng, pii, fb, lrn, an,
                            thr, stg, use>>

\* the records of a list for the pair (request_id, feedback_type)
Duplicates(list, request_id, feedback_type) ==
  SelectSeq(list, LAMBDA r : r.request_id = request_id /\ r.feedback_type = feedback_type)

\* get_feedback_storage(): RedisFeedbackStorage or FileFeedbackStorage
SubStart ==
  /\ sub.pc = "idle"
  /\ \E backend \in {"file", "redis"} :
       sub' = [pc |-> "run", backend |-> backend, feedback |-> <<>>, index |-> {},
               next_id |-> 1, calls |-> 0, returned |-> {},
               th |-> [i \in Workers |->
                         [pc |-> "idle", request_id |-> 0, feedback_type |-> "correct",
                          feedback_list |-> <<>>, feedback_id |-> 0]]]
  /\ subUnchanged

\* store_feedback(request_id, feedback_type) is called; the request is cached
SubCall(i) ==
  /\ sub.pc = "run"
  /\ sub.th[i].pc = "idle"
  /\ sub.calls < MaxSubmits
  /\ \E request_id \in 1..MaxSubRequests, feedback_type \in FeedbackTypes :
       sub' = [sub EXCEPT !.calls = @ + 1,
                          !.th[i] = [pc |-> "check", request_id |-> request_id,
                                     feedback_type |-> feedback_type,
                                     feedback_list |-> <<>>, feedback_id |-> 0]]
  /\ subUnchanged

\* the check for a duplicate: _load_feedback and the loop over the list, or
\* smembers of the request's index and get of each record in it; an existing
\* record is returned, else a new feedback_id is made
SubCheck(i) ==
  /\ sub.pc = "run"
  /\ sub.th[i].pc = "check"
  /\ LET t == sub.th[i]
         seen == IF sub.backend = "file" THEN sub.feedback
                 ELSE SelectSeq(sub.feedback, LAMBDA r : r.feedback_id \in sub.index)
         existing == Duplicates(seen, t.request_id, t.feedback_type)
     IN IF existing # <<>>
          THEN sub' = [sub EXCEPT
                         !.th[i].pc = "idle",
                         !.th[i].feedback_id = existing[1].feedback_id,
                         !.returned = @ \cup {[request_id |-> t.request_id,
                                               feedback_type |-> t.feedback_type,
                                               feedback_id |-> existing[1].feedback_id]}]
          ELSE sub' = [sub EXCEPT
                         !.th[i].pc = "store",
                         !.th[i].feedback_list = IF sub.backend = "file" THEN seen ELSE <<>>,
                         !.th[i].feedback_id = sub.next_id,
                         !.next_id = @ + 1]
  /\ subUnchanged

\* _save_feedback of the list that was loaded with the new record appended, or
\* client.set of the new record
SubStore(i) ==
  /\ sub.pc = "run"
  /\ sub.th[i].pc = "store"
  /\ LET t == sub.th[i]
         record == [feedback_id |-> t.feedback_id, request_id |-> t.request_id,
                    feedback_type |-> t.feedback_type]
     IN IF sub.backend = "file"
          THEN sub' = [sub EXCEPT
                         !.feedback = Append(t.feedback_list, record),
                         !.th[i].pc = "idle",
                         !.returned = @ \cup {record}]
          ELSE sub' = [sub EXCEPT
                         !.feedback = Append(@, record),
                         !.th[i].pc = "index"]
  /\ subUnchanged

\* client.sadd of the new feedback_id to the request's index, and the return
SubIndex(i) ==
  /\ sub.pc = "run"
  /\ sub.th[i].pc = "index"
  /\ LET t == sub.th[i] IN
     sub' = [sub EXCEPT
               !.index = @ \cup {t.feedback_id},
               !.th[i].pc = "idle",
               !.returned = @ \cup {[feedback_id |-> t.feedback_id,
                                     request_id |-> t.request_id,
                                     feedback_type |-> t.feedback_type]}]
  /\ subUnchanged

NextSubmit ==
  \/ SubStart
  \/ \E i \in Workers : SubCall(i) \/ SubCheck(i) \/ SubStore(i) \/ SubIndex(i)

SpecSubmit == InitCB /\ [][NextSubmit]_vars

\* C30: after any store_feedback calls, concurrent ones too, there is at most one
\* stored record per (request_id, feedback_type), and the submissions for one
\* pair have all returned the feedback_id of the one record, which is stored.
C30_OneRecordPerPair ==
  sub.pc = "run" =>
    /\ \A i, j \in DOMAIN sub.feedback :
         (sub.feedback[i].request_id = sub.feedback[j].request_id
            /\ sub.feedback[i].feedback_type = sub.feedback[j].feedback_type) => i = j
    /\ \A a, b \in sub.returned :
         (a.request_id = b.request_id /\ a.feedback_type = b.feedback_type) =>
            a.feedback_id = b.feedback_id
    /\ (\A i \in Workers : sub.th[i].pc = "idle") =>
         \A a \in sub.returned : \E i \in DOMAIN sub.feedback : sub.feedback[i] = a

====
